---- MODULE Spec2Model ----
(***************************************************************************)
(* Verification model of smart-media-organizer:                            *)
(*   core/scanner.py        MediaFileScanner.scan_directory                *)
(*   utils/file_ops.py      copy_file_atomic                               *)
(*   utils/retry.py         RetryContext / retry_async                     *)
(*   utils/rate_limiter.py  TokenBucket / SlidingWindow / Adaptive         *)
(* Each component has its own variables, initial predicate and             *)
(* specification; a component's actions leave the others' variables alone. *)
(***************************************************************************)
EXTENDS Integers, Sequences, FiniteSets, TLC

(***************************************************************************)
(* Bounds of the model.                                                    *)
(***************************************************************************)
NFiles == 3

(***************************************************************************)
(* Generic helpers.                                                        *)
(***************************************************************************)
Min(a, b) == IF a <= b THEN a ELSE b

Max(a, b) == IF a >= b THEN a ELSE b

SeqToSet(s) == {s[i] : i \in 1..Len(s)}

VARIABLES
    \* ---- scanner (core/scanner.py) ----
    scan_pc,          \* position of scan_directory
    scan_error,       \* error raised to the consumer, "none" if none
    root_kind,        \* what the root path is on disk
    max_concurrent,   \* the max_concurrent argument (0: omitted), then the
                      \* resolved concurrency limit
    min_file_size_mb, \* Settings.min_file_size_mb
    max_file_size_gb, \* Settings.max_file_size_gb (0 = no limit)
    files,            \* file index -> properties of that file on disk
    file_paths,       \* paths found by the discovery pass, in order
    task_pc,          \* position of each analysis task
    task_result,      \* what each task returned
    sem_value,        \* asyncio.Semaphore._value
    sem_waiters,      \* asyncio.Semaphore._waiters (FIFO)
    completed,        \* finished tasks not yet handed to the consumer
    finish_order,     \* every finished task so far, in order of finishing
    yielded           \* results the consumer has received, in order

scanVars == <<scan_pc, scan_error, root_kind, max_concurrent, min_file_size_mb,
              max_file_size_gb, files, file_paths, task_pc, task_result,
              sem_value, sem_waiters, completed, finish_order, yielded>>

VARIABLES
    \* ---- copy_file_atomic (utils/file_ops.py) ----
    fs,            \* path -> content (a sequence of 8 KiB chunks) or Absent
    cp_pc,         \* position of copy_file_atomic
    cp_source,     \* the source path
    cp_destination, \* the destination path
    cp_verify,     \* verify_integrity
    cp_preserve,   \* preserve_metadata
    cp_pos,        \* chunks read from the source so far
    cp_error,      \* error raised to the caller, "none" if none
    cp_src0,       \* content of the source path when the call started
    cp_dst0,       \* content of the destination path when the call started
    cp_cause       \* the exception caught at line 204, "none" if none

copyVars == <<fs, cp_pc, cp_source, cp_destination, cp_verify, cp_preserve,
              cp_pos, cp_error, cp_src0, cp_dst0, cp_cause>>

VARIABLES
    \* ---- move_file_atomic (utils/file_ops.py) ----
    mv_pc,             \* position of move_file_atomic
    mv_source,         \* the source path
    mv_verify,         \* verify_integrity
    mv_create_backup,  \* create_backup
    mv_error,          \* error raised to the caller, "none" if none
    mv_src0,           \* content of the source path when the call started
    mv_dst0            \* content of the destination path when the call started

moveVars == <<mv_pc, mv_source, mv_verify, mv_create_backup, mv_error,
              mv_src0, mv_dst0>>

VARIABLES
    \* ---- retry_async / RetryContext (utils/retry.py) ----
    rt_pc,            \* position of retry_async
    rt_strategy,      \* the strategy object: kind, max_attempts, whitelist, jitter
    rt_attempt,       \* RetryContext.attempt
    rt_exceptions,    \* RetryContext.exceptions
    rt_total_delay,   \* RetryContext.total_delay
    rt_calls,         \* invocations of the wrapped operation so far
    rt_sleeps,        \* delays slept so far, in order
    rt_delay,         \* the delay being slept
    rt_raised,        \* the RetryError raised: <<attempts, last_exception>>
    rt_func,          \* the wrapped function
    rt_file,          \* its file_path argument
    rt_outcomes       \* what the operation inside it did, per invocation

retryVars == <<rt_pc, rt_strategy, rt_attempt, rt_exceptions, rt_total_delay,
               rt_calls, rt_sleeps, rt_delay, rt_raised, rt_func, rt_file,
               rt_outcomes>>

VARIABLES
    \* ---- SlidingWindowRateLimiter (utils/rate_limiter.py) ----
    sw_now,           \* time.time(), in ticks
    sw_max_requests,  \* max_requests
    sw_window,        \* window_seconds, in ticks
    sw_requests,      \* the deque of request timestamps
    sw_pc,            \* caller -> "idle" or "sleeping" (inside acquire_wait)
    sw_wake,          \* caller -> the time its sleep ends
    sw_log            \* every acquire decision so far: time, outcome, retry_after

swVars == <<sw_now, sw_max_requests, sw_window, sw_requests, sw_pc, sw_wake, sw_log>>

VARIABLES
    \* ---- TokenBucketRateLimiter (utils/rate_limiter.py) ----
    tb_now,           \* time.time(), in ticks
    tb_capacity,      \* capacity, in tokens
    tb_refill_rate,   \* refill_rate, in token units per tick
    tb_initial,       \* the initial_tokens argument: <<n>>, or <<>> for None
    tb_tokens,        \* self.tokens, in token units
    tb_last_refill,   \* self.last_refill
    tb_pc,            \* acquire_wait caller -> "idle" or "sleeping"
    tb_want,          \* caller -> tokens requested by its acquire_wait
    tb_wake,          \* caller -> <<time the sleep began, units it waits for>>
    tb_log            \* every acquire decision and reset so far

tbVars == <<tb_now, tb_capacity, tb_refill_rate, tb_initial, tb_tokens,
            tb_last_refill, tb_pc, tb_want, tb_wake, tb_log>>

VARIABLES
    \* ---- AdaptiveRateLimiter (utils/rate_limiter.py) ----
    ad_now,                    \* time.time(), in ticks
    ad_initial_rate,           \* the rates and factors are fractions <<n, d>>
    ad_min_rate,
    ad_max_rate,
    ad_increase_factor,
    ad_decrease_factor,
    ad_current_rate,
    ad_last_request,
    ad_consecutive_successes,
    ad_lock,                   \* the caller holding self._lock, 0 when free
    ad_pc,                     \* caller -> "idle" or "sleeping" (inside acquire)
    ad_wake,                   \* caller -> <<last_request, rate>> it spaces from
    ad_run,                    \* report_success calls since the last
                               \* report_rate_limited (or construction)
    ad_limited,                \* report_rate_limited calls so far
    ad_prev_rate,              \* current_rate before the latest report
    ad_last_report             \* "none", "success" or "rate_limited"

adVars == <<ad_now, ad_initial_rate, ad_min_rate, ad_max_rate, ad_increase_factor,
            ad_decrease_factor, ad_current_rate, ad_last_request,
            ad_consecutive_successes, ad_lock, ad_pc, ad_wake, ad_run,
            ad_limited, ad_prev_rate, ad_last_report>>

VARIABLES
    \* ---- RateLimitedClient (utils/rate_limiter.py) ----
    rc_pc,           \* position of call()
    rc_limiter,      \* class of self.rate_limiter
    rc_auto_retry,   \* self.auto_retry
    rc_max_retries,  \* self.max_retries
    rc_retries,      \* the local retries
    rc_sleep,        \* length of the sleep in progress, 0 if none
    rc_error,        \* error raised to the caller, "none" if none
    rc_log           \* what call() has done so far, in order

rcVars == <<rc_pc, rc_limiter, rc_auto_retry, rc_max_retries, rc_retries,
            rc_sleep, rc_error, rc_log>>

VARIABLES
    \* ---- MediaFileScanner.get_directory_stats (core/scanner.py) ----
    gs_pc,           \* position of get_directory_stats
    gs_root,         \* what the directory argument is on disk
    gs_files,        \* file index -> properties of that file on disk
    gs_pos,          \* files the walk has handed out so far
    gs_stats,        \* the stats dictionary
    gs_error         \* error raised to the caller, "none" if none

gsVars == <<gs_pc, gs_root, gs_files, gs_pos, gs_stats, gs_error>>

VARIABLES
    \* ---- MediaFileParser.parse_media_file (services/media_parser.py) ----
    pm_pc,           \* position of parse_media_file
    pm_media_file,   \* the MediaFile argument: path and processing fields
    pm_tracks,       \* what the tracks of the file hold
    pm_exception,    \* the exception caught by line 443, NoException if none
    pm_raised        \* class of the error raised to the caller, "none" if none

pmVars == <<pm_pc, pm_media_file, pm_tracks, pm_exception, pm_raised>>

VARIABLES
    \* ---- a caller that repeats copy_file_atomic (utils/file_ops.py) ----
    cp_runs          \* how each earlier call of the same copy ended, in order

rrVars == <<cp_runs>>

VARIABLES
    \* ---- ExponentialBackoffStrategy.get_delay (utils/retry.py) ----
    gd_pc,           \* position of get_delay
    gd_strategy,     \* the strategy get_delay is called on
    gd_attempt,      \* the attempt argument
    gd_delay,        \* the local variable delay
    gd_raised        \* class of the error raised to the caller, "none" if none

gdVars == <<gd_pc, gd_strategy, gd_attempt, gd_delay, gd_raised>>

VARIABLES
    \* ---- two concurrent copy_file_atomic calls (utils/file_ops.py) ----
    cc_names,        \* path ("t" staging, "d" destination) -> its file, 0 if none
    cc_data,         \* file number -> content of that file
    cc_pc,           \* call -> position of that copy_file_atomic call
    cc_pos,          \* call -> chunks of its source it has written
    cc_handle,       \* call -> the file its open staging handle writes to, 0 if none
    cc_error,        \* call -> error raised to its caller, "none" if none
    cc_verify,       \* verify_integrity of both calls
    cc_preserve      \* preserve_metadata of both calls

ccVars == <<cc_names, cc_data, cc_pc, cc_pos, cc_handle, cc_error, cc_verify, cc_preserve>>

notScan == <<copyVars, moveVars, retryVars, swVars, tbVars, adVars, rcVars, gsVars, pmVars, rrVars, gdVars, ccVars>>

notCopy == <<scanVars, moveVars, retryVars, swVars, tbVars, adVars, rcVars, gsVars, pmVars, rrVars, gdVars, ccVars>>

notRetry == <<scanVars, copyVars, moveVars, swVars, tbVars, adVars, rcVars, gsVars, pmVars, rrVars, gdVars, ccVars>>

notSw == <<scanVars, copyVars, moveVars, retryVars, tbVars, adVars, rcVars, gsVars, pmVars, rrVars, gdVars, ccVars>>

notTb == <<scanVars, copyVars, moveVars, retryVars, swVars, adVars, rcVars, gsVars, pmVars, rrVars, gdVars, ccVars>>

notAd == <<scanVars, copyVars, moveVars, retryVars, swVars, tbVars, rcVars, gsVars, pmVars, rrVars, gdVars, ccVars>>

\* move_file_atomic calls copy_file_atomic, so its steps write the copy state.
notMove == <<scanVars, retryVars, swVars, tbVars, adVars, rcVars, gsVars, pmVars, rrVars, gdVars, ccVars>>

notRc == <<scanVars, copyVars, moveVars, retryVars, swVars, tbVars, adVars, gsVars, pmVars, rrVars, gdVars, ccVars>>

notGs == <<scanVars, copyVars, moveVars, retryVars, swVars, tbVars, adVars, rcVars, pmVars, rrVars, gdVars, ccVars>>

notPm == <<scanVars, copyVars, moveVars, retryVars, swVars, tbVars, adVars, rcVars, gsVars, rrVars, gdVars, ccVars>>

\* A repeated copy writes the copy state and the record of its runs.
notCopyRerun == <<scanVars, moveVars, retryVars, swVars, tbVars, adVars, rcVars, gsVars, pmVars, gdVars, ccVars>>

notGd == <<scanVars, copyVars, moveVars, retryVars, swVars, tbVars, adVars, rcVars, gsVars, pmVars, rrVars, ccVars>>

notCc == <<scanVars, copyVars, moveVars, retryVars, swVars, tbVars, adVars, rcVars, gsVars, pmVars, rrVars, gdVars>>

(***************************************************************************)
(* Files on disk.  Sizes are in MB; the settings below use the same unit.  *)
(*   skip    : the name contains one of Settings.skip_patterns             *)
(*   ext     : class of the suffix (file_ops.py extension sets)            *)
(*   stat    : what get_file_info does ("ok", "raise", or "nosize": the    *)
(*             returned mapping has no usable size, so the size check      *)
(*             raises)                                                     *)
(*   size    : st_size                                                     *)
(*   content : what reading and sniffing the header does                   *)
(***************************************************************************)
FileIds == 1..NFiles

MinFileSizeMb == 1

MaxFileSizeChoices == {0, 5}

FileProfiles ==
    { [skip |-> FALSE, ext |-> "video",    stat |-> "ok",     size |-> 2, content |-> "media"],
      [skip |-> TRUE,  ext |-> "video",    stat |-> "ok",     size |-> 2, content |-> "media"],
      [skip |-> FALSE, ext |-> "other",    stat |-> "ok",     size |-> 2, content |-> "notmedia"],
      [skip |-> FALSE, ext |-> "other",    stat |-> "ok",     size |-> 2, content |-> "media"],
      [skip |-> FALSE, ext |-> "video",    stat |-> "raise",  size |-> 2, content |-> "media"],
      [skip |-> FALSE, ext |-> "video",    stat |-> "nosize", size |-> 2, content |-> "media"],
      [skip |-> FALSE, ext |-> "video",    stat |-> "ok",     size |-> 0, content |-> "media"],
      [skip |-> FALSE, ext |-> "video",    stat |-> "ok",     size |-> 9, content |-> "media"],
      [skip |-> FALSE, ext |-> "video",    stat |-> "ok",     size |-> 2, content |-> "notmedia"],
      [skip |-> FALSE, ext |-> "image",    stat |-> "ok",     size |-> 2, content |-> "empty"],
      [skip |-> FALSE, ext |-> "video",    stat |-> "ok",     size |-> 2, content |-> "sniffraise"],
      [skip |-> FALSE, ext |-> "subtitle", stat |-> "ok",     size |-> 2, content |-> "sniffraise"],
      [skip |-> FALSE, ext |-> "image",    stat |-> "ok",     size |-> 2, content |-> "openraise"] }

\* Settings.should_skip_file
should_skip_file(f) == files[f].skip

\* file_ops.is_video_file / is_subtitle_file / is_image_file
is_video_file(f) == files[f].ext = "video"

is_subtitle_file(f) == files[f].ext = "subtitle"

is_image_file(f) == files[f].ext = "image"

\* MediaFileScanner._is_potential_media_file
is_potential_media_file(f) ==
    is_video_file(f) \/ is_subtitle_file(f) \/ is_image_file(f)

\* Settings.get_file_size_limits: <<min_size, max_size>>, max_size 0 for None
get_file_size_limits == <<min_file_size_mb, max_file_size_gb>>

\* Faulty variant of the size tests: the maximum is ignored.
size_rejected_ignores_max(f) == files[f].size < get_file_size_limits[1]

\* The two size tests of _analyze_file, lines 264-280: TRUE when the file is
\* rejected.
size_rejected(f) ==
    LET min_size == get_file_size_limits[1]
        max_size == get_file_size_limits[2]
    IN  \/ files[f].size < min_size
        \/ (max_size # 0 /\ files[f].size > max_size)

\* Faulty variant of the inner handler: every extension of the quick filter
\* is accepted.
sniff_fallback_any_media_extension(f) == is_potential_media_file(f)

\* The inner handler of _verify_media_file, lines 357-364: the detector raised.
sniff_fallback(f) == is_video_file(f)

\* Faulty variant of the outer handler: failing open.
verify_outer_handler_wrong(f) == TRUE

\* The outer handler of _verify_media_file, lines 366-370: opening or reading
\* raised.
verify_outer_handler(f) == FALSE

\* MediaFileScanner._verify_media_file
verify_media_file(f) ==
    CASE files[f].content = "openraise"  -> verify_outer_handler(f)
      [] files[f].content = "empty"      -> FALSE
      [] files[f].content = "sniffraise" -> sniff_fallback(f)
      [] files[f].content = "media"      -> TRUE
      [] OTHER                           -> FALSE

\* The handler of _analyze_file: except Exception -> log, return None.
analyze_exception_handler == "none"

\* _analyze_file up to its first await: skip patterns, then the extension filter.
analyze_before_stat(f) ==
    IF should_skip_file(f) THEN "none"
    ELSE IF ~is_potential_media_file(f) THEN "none"
    ELSE "continue"

\* _analyze_file from the return of get_file_info to the call of
\* _verify_media_file: the stat may have raised, reading the size may raise.
analyze_after_stat(f) ==
    IF files[f].stat # "ok" THEN analyze_exception_handler
    ELSE IF size_rejected(f) THEN "none"
    ELSE "continue"

\* _analyze_file from the return of _verify_media_file to its own return.
analyze_after_verify(f) ==
    IF ~verify_media_file(f) THEN "none" ELSE "media"

(***************************************************************************)
(* asyncio.Semaphore(max_concurrent): a counter and a FIFO of waiters.     *)
(* acquire() takes a permit at once when one is free and nobody waits,     *)
(* otherwise the caller is queued; release() returns the permit and the    *)
(* head waiter, when resumed, takes it.                                    *)
(***************************************************************************)
\* Faulty variant of the gate: never locked.
sem_locked_wrong == FALSE

\* asyncio.Semaphore.locked(), as used by acquire(): no permit is free, or
\* earlier callers are still queued for one.
sem_locked == sem_value = 0 \/ sem_waiters # <<>>

Holding == {t \in FileIds : task_pc[t] \in {"stat", "verify"}}

\* The inputs of one scan: they never change during it.
scanSettings == <<root_kind, max_concurrent, min_file_size_mb, max_file_size_gb, files>>

ScanStart ==
    /\ scan_pc = "idle"
    /\ scan_error = "none"
    /\ root_kind \in {"dir", "missing", "file"}
    /\ max_concurrent \in {0, 1, 2, NFiles + 1}
    /\ min_file_size_mb = MinFileSizeMb
    /\ max_file_size_gb \in MaxFileSizeChoices
    /\ files \in [FileIds -> FileProfiles]
    /\ file_paths = <<>>
    /\ task_pc = [t \in FileIds |-> "none"]
    /\ task_result = [t \in FileIds |-> "unset"]
    /\ sem_value = 0
    /\ sem_waiters = <<>>
    /\ completed = <<>>
    /\ finish_order = <<>>
    /\ yielded = <<>>

\* Settings.min_file_size_mb, config.py line 146: the default
DefaultMinFileSizeMb == 10

\* The end-to-end tree: movie.mkv (2 MB, video magic bytes), movie.sample.mkv
\* (matches the default skip pattern ".sample") and readme.txt.
MovieMkv ==
    [skip |-> FALSE, ext |-> "video", stat |-> "ok", size |-> 2, content |-> "media"]

MovieSampleMkv ==
    [skip |-> TRUE, ext |-> "video", stat |-> "ok", size |-> 2, content |-> "media"]

ReadmeTxt ==
    [skip |-> FALSE, ext |-> "other", stat |-> "ok", size |-> 2, content |-> "notmedia"]

\* A scan of the end-to-end tree, in any traversal order, with or without an
\* explicit max_concurrent, with the default size limits or a smaller
\* minimum.
ScanE2EStart ==
    /\ scan_pc = "idle"
    /\ scan_error = "none"
    /\ root_kind = "dir"
    /\ max_concurrent \in {0, 1, 2, NFiles + 1}
    /\ min_file_size_mb \in {MinFileSizeMb, DefaultMinFileSizeMb}
    /\ max_file_size_gb = 0
    /\ files \in [FileIds -> {MovieMkv, MovieSampleMkv, ReadmeTxt}]
    /\ Cardinality({f \in FileIds : files[f] = MovieMkv}) = 1
    /\ \E f \in FileIds : files[f] = MovieSampleMkv
    /\ \E f \in FileIds : files[f] = ReadmeTxt
    /\ file_paths = <<>>
    /\ task_pc = [t \in FileIds |-> "none"]
    /\ task_result = [t \in FileIds |-> "unset"]
    /\ sem_value = 0
    /\ sem_waiters = <<>>
    /\ completed = <<>>
    /\ finish_order = <<>>
    /\ yielded = <<>>

\* Faulty variant of the validation: only existence is checked.
validate_directory_wrong ==
    IF root_kind = "missing" THEN "InvalidDirectoryError" ELSE "none"

\* scan_directory, lines 149-153: the root must exist and be a directory.
validate_directory ==
    IF root_kind = "missing" THEN "InvalidDirectoryError"
    ELSE IF root_kind # "dir" THEN "InvalidDirectoryError"
    ELSE "none"

\* scan_directory, line 155: `max_concurrent or self.settings
\* .max_concurrent_api_calls`.  Settings defines max_concurrent (config.py
\* line 93) and no max_concurrent_api_calls, so the lookup raises whenever
\* the argument is omitted (or 0).
resolve_max_concurrent ==
    IF max_concurrent # 0 THEN "none" ELSE "AttributeError"

\* scan_directory, lines 149-165: validate the root, resolve the limit,
\* create the semaphore.
ScanValidate ==
    /\ scan_pc = "idle"
    /\ IF validate_directory # "none"
          THEN /\ scan_pc' = "failed"
               /\ scan_error' = validate_directory
               /\ UNCHANGED sem_value
          ELSE IF resolve_max_concurrent # "none"
          THEN /\ scan_pc' = "failed"
               /\ scan_error' = resolve_max_concurrent
               /\ UNCHANGED sem_value
          ELSE /\ scan_pc' = "discovering"
               /\ sem_value' = max_concurrent
               /\ UNCHANGED scan_error
    /\ UNCHANGED <<scanSettings, file_paths, task_pc, task_result, sem_waiters,
                   completed, finish_order, yielded>>
    /\ UNCHANGED notScan

\* scan_directory, lines 172-178: the discovery pass appends one more path.
ScanDiscover ==
    /\ scan_pc = "discovering"
    /\ Len(file_paths) < NFiles
    /\ file_paths' = Append(file_paths, Len(file_paths) + 1)
    /\ UNCHANGED <<scan_pc, scan_error, scanSettings, task_pc, task_result,
                   sem_value, sem_waiters, completed, finish_order, yielded>>
    /\ UNCHANGED notScan

\* _discover_files, lines 224-228: the walk raised OSError.
ScanDiscoverError ==
    /\ scan_pc = "discovering"
    /\ Len(file_paths) < NFiles
    /\ scan_pc' = "failed"
    /\ scan_error' = "ScannerError"
    /\ UNCHANGED <<scanSettings, file_paths, task_pc, task_result, sem_value,
                   sem_waiters, completed, finish_order, yielded>>
    /\ UNCHANGED notScan

\* Faulty variant of the end of discovery: one path is enough.
discovery_finished_wrong == Len(file_paths) >= 1

\* scan_directory, lines 173-178: the `async for` over _discover_files ends
\* when the walk is exhausted.
discovery_finished == Len(file_paths) = NFiles

\* scan_directory, lines 185-192: one task per discovered path.
ScanCreateTasks ==
    /\ scan_pc = "discovering"
    /\ discovery_finished
    /\ scan_pc' = "analyzing"
    /\ task_pc' = [t \in FileIds |-> IF t \in SeqToSet(file_paths) THEN "pending" ELSE "none"]
    /\ UNCHANGED <<scan_error, scanSettings, file_paths, task_result, sem_value,
                   sem_waiters, completed, finish_order, yielded>>
    /\ UNCHANGED notScan

\* The tasks of line 187 belong to the event loop, not to the generator: they
\* run while the generator is consumed and after it was closed.
tasks_alive == scan_pc \in {"analyzing", "closed"}

\* A task that holds a permit runs _analyze_file up to its first await; when
\* the file is filtered out there the task returns and releases at once.
TaskEnter(t) ==
    IF analyze_before_stat(t) = "continue"
      THEN /\ task_pc' = [task_pc EXCEPT ![t] = "stat"]
           /\ sem_value' = sem_value - 1
           /\ UNCHANGED <<task_result, completed, finish_order>>
      ELSE /\ task_pc' = [task_pc EXCEPT ![t] = "done"]
           /\ task_result' = [task_result EXCEPT ![t] = analyze_before_stat(t)]
           /\ completed' = Append(completed, t)
           /\ finish_order' = Append(finish_order, t)
           /\ UNCHANGED sem_value

\* Faulty variant of the exit: a unit that produced nothing keeps its permit.
TaskExit_keeps_permit_without_result(t, result) ==
    /\ task_pc' = [task_pc EXCEPT ![t] = "done"]
    /\ task_result' = [task_result EXCEPT ![t] = result]
    /\ sem_value' = IF result = "media" THEN sem_value + 1 ELSE sem_value
    /\ completed' = Append(completed, t)
    /\ finish_order' = Append(finish_order, t)

\* The task leaves `async with semaphore` with a result: release, complete.
TaskExit(t, result) ==
    /\ task_pc' = [task_pc EXCEPT ![t] = "done"]
    /\ task_result' = [task_result EXCEPT ![t] = result]
    /\ sem_value' = sem_value + 1
    /\ completed' = Append(completed, t)
    /\ finish_order' = Append(finish_order, t)

\* _analyze_file_with_semaphore, line 237: the task starts and acquires.
TaskStart(t) ==
    /\ tasks_alive
    /\ task_pc[t] = "pending"
    /\ IF sem_locked
          THEN /\ task_pc' = [task_pc EXCEPT ![t] = "waiting"]
               /\ sem_waiters' = Append(sem_waiters, t)
               /\ UNCHANGED <<task_result, sem_value, completed, finish_order>>
          ELSE /\ TaskEnter(t)
               /\ UNCHANGED sem_waiters
    /\ UNCHANGED <<scan_pc, scan_error, scanSettings, file_paths, yielded>>
    /\ UNCHANGED notScan

\* Faulty variant of the resumption: a waiter is resumed only when a second
\* permit is free.
TaskResume_needs_spare_permit(t) ==
    /\ tasks_alive
    /\ task_pc[t] = "waiting"
    /\ sem_waiters # <<>> /\ Head(sem_waiters) = t
    /\ sem_value > 1
    /\ sem_waiters' = Tail(sem_waiters)
    /\ TaskEnter(t)
    /\ UNCHANGED <<scan_pc, scan_error, scanSettings, file_paths, yielded>>
    /\ UNCHANGED notScan

\* The head waiter is resumed after a release and takes the permit.
TaskResume(t) ==
    /\ tasks_alive
    /\ task_pc[t] = "waiting"
    /\ sem_waiters # <<>> /\ Head(sem_waiters) = t
    /\ sem_value > 0
    /\ sem_waiters' = Tail(sem_waiters)
    /\ TaskEnter(t)
    /\ UNCHANGED <<scan_pc, scan_error, scanSettings, file_paths, yielded>>
    /\ UNCHANGED notScan

\* _analyze_file, lines 258-280: get_file_info returns or raises, size window.
TaskStat(t) ==
    /\ tasks_alive
    /\ task_pc[t] = "stat"
    /\ IF analyze_after_stat(t) = "continue"
          THEN /\ task_pc' = [task_pc EXCEPT ![t] = "verify"]
               /\ UNCHANGED <<task_result, sem_value, completed, finish_order>>
          ELSE TaskExit(t, analyze_after_stat(t))
    /\ UNCHANGED <<scan_pc, scan_error, scanSettings, file_paths, sem_waiters,
                   yielded>>
    /\ UNCHANGED notScan

\* _analyze_file, lines 283-303: content verification, then the result.
TaskVerify(t) ==
    /\ tasks_alive
    /\ task_pc[t] = "verify"
    /\ TaskExit(t, analyze_after_verify(t))
    /\ UNCHANGED <<scan_pc, scan_error, scanSettings, file_paths, sem_waiters,
                   yielded>>
    /\ UNCHANGED notScan

\* scan_directory, lines 195-201: what the consumer loop does with the
\* outcome of an awaited task: a MediaFile is yielded, None is dropped, an
\* exception is caught and logged.
consume_outcome(result) ==
    CASE result = "media"  -> "yield"
      [] result = "raised" -> "drop"
      [] OTHER             -> "drop"

\* Faulty variant of the hand-over: the earliest discovered finished task.
next_completed_wrong ==
    CHOOSE t \in SeqToSet(completed) : \A u \in SeqToSet(completed) : t <= u

\* asyncio.as_completed, line 195: the next task handed to the consumer is
\* the one that finished first among those not handed over yet.
next_completed == Head(completed)

\* scan_directory, lines 195-201: the consumer receives the next completed task.
ScanConsume ==
    /\ scan_pc = "analyzing"
    /\ completed # <<>>
    /\ LET t == next_completed
           outcome == consume_outcome(task_result[t])
       IN  /\ completed' = SelectSeq(completed, LAMBDA u : u # t)
           /\ task_pc' = [task_pc EXCEPT ![t] = "consumed"]
           /\ yielded' = IF outcome = "yield" THEN Append(yielded, t) ELSE yielded
           /\ scan_pc' = IF outcome = "propagate" THEN "failed" ELSE scan_pc
           /\ scan_error' = IF outcome = "propagate" THEN "Exception" ELSE scan_error
    /\ UNCHANGED <<scanSettings, file_paths, task_result, sem_value, sem_waiters,
                   finish_order>>
    /\ UNCHANGED notScan

\* scan_directory, line 199: the consumer receives a MediaFile and stops
\* pulling; the generator, suspended at its yield, is closed.  GeneratorExit
\* passes through the loop of line 195 and through ScanProgress; no task is
\* cancelled.
ScanAbort ==
    /\ scan_pc = "analyzing"
    /\ completed # <<>>
    /\ LET t == next_completed
       IN  /\ consume_outcome(task_result[t]) = "yield"
           /\ completed' = SelectSeq(completed, LAMBDA u : u # t)
           /\ task_pc' = [task_pc EXCEPT ![t] = "consumed"]
           /\ yielded' = Append(yielded, t)
    /\ scan_pc' = "closed"
    /\ UNCHANGED <<scan_error, scanSettings, file_paths, task_result, sem_value,
                   sem_waiters, finish_order>>
    /\ UNCHANGED notScan

\* scan_directory, lines 203-207: every task has been consumed.
ScanFinish ==
    /\ scan_pc = "analyzing"
    /\ \A t \in FileIds : task_pc[t] = "consumed"
    /\ scan_pc' = "done"
    /\ UNCHANGED <<scan_error, scanSettings, file_paths, task_pc, task_result,
                   sem_value, sem_waiters, completed, finish_order, yielded>>
    /\ UNCHANGED notScan

ScanNext ==
    \/ ScanValidate
    \/ ScanDiscover
    \/ ScanDiscoverError
    \/ ScanCreateTasks
    \/ \E t \in FileIds : TaskStart(t)
    \/ \E t \in FileIds : TaskResume(t)
    \/ \E t \in FileIds : TaskStat(t)
    \/ \E t \in FileIds : TaskVerify(t)
    \/ ScanConsume
    \/ ScanFinish

ScanAbortNext ==
    \/ ScanNext
    \/ ScanAbort

\* A scan of a directory of media files and text files whose consumer may
\* stop early.
ScanAbortStart ==
    /\ scan_pc = "idle"
    /\ scan_error = "none"
    /\ root_kind = "dir"
    /\ max_concurrent \in {0, 1, 2}
    /\ min_file_size_mb = MinFileSizeMb
    /\ max_file_size_gb = 0
    /\ files \in [FileIds -> {MovieMkv, ReadmeTxt}]
    /\ file_paths = <<>>
    /\ task_pc = [t \in FileIds |-> "none"]
    /\ task_result = [t \in FileIds |-> "unset"]
    /\ sem_value = 0
    /\ sem_waiters = <<>>
    /\ completed = <<>>
    /\ finish_order = <<>>
    /\ yielded = <<>>

\* A scan with an explicit limit of at least 1 over files that are accepted,
\* filtered out by their extension, fail in the stat call or are rejected by
\* the content verification, whose consumer iterates to the end.
StatFailsMkv ==
    [skip |-> FALSE, ext |-> "video", stat |-> "raise", size |-> 2, content |-> "media"]

NotMediaMkv ==
    [skip |-> FALSE, ext |-> "video", stat |-> "ok", size |-> 2, content |-> "notmedia"]

ScanFairStart ==
    /\ scan_pc = "idle"
    /\ scan_error = "none"
    /\ root_kind = "dir"
    /\ max_concurrent \in {1, 2, NFiles + 1}
    /\ min_file_size_mb = MinFileSizeMb
    /\ max_file_size_gb = 0
    /\ files \in [FileIds -> {MovieMkv, ReadmeTxt, StatFailsMkv, NotMediaMkv}]
    /\ file_paths = <<>>
    /\ task_pc = [t \in FileIds |-> "none"]
    /\ task_result = [t \in FileIds |-> "unset"]
    /\ sem_value = 0
    /\ sem_waiters = <<>>
    /\ completed = <<>>
    /\ finish_order = <<>>
    /\ yielded = <<>>

(***************************************************************************)
(* MediaFileScanner.get_directory_stats.  The walk hands out the files     *)
(* under the root one by one; each is stat'ed and counted.  get_file_info  *)
(* (file_ops.py 56-86) returns a dictionary that always has a size, or     *)
(* raises.                                                                 *)
(***************************************************************************)
StatsProfiles == {p \in FileProfiles : p.stat \in {"ok", "raise"}}

\* lines 402-409
EmptyStats ==
    [total_files |-> 0, total_size |-> 0, video_files |-> 0, subtitle_files |-> 0,
     image_files |-> 0, other_files |-> 0]

GsStartState ==
    /\ gs_pc = "start"
    /\ gs_root \in {"dir", "missing", "file"}
    /\ gs_files \in [FileIds -> StatsProfiles]
    /\ gs_pos = 0
    /\ gs_stats = EmptyStats
    /\ gs_error = "none"

GsIdle ==
    /\ gs_pc = "idle"
    /\ gs_root = "dir"
    /\ gs_files = <<>>
    /\ gs_pos = 0
    /\ gs_stats = EmptyStats
    /\ gs_error = "none"

\* _discover_files, lines 214-218: rglob("*") filtered by isfile; a root that
\* is a file has nothing below it.
discovered == IF gs_root = "dir" THEN NFiles ELSE 0

\* lines 416-423: the if / elif chain over the extension.
category(p) ==
    IF p.ext = "video" THEN "video_files"
    ELSE IF p.ext = "subtitle" THEN "subtitle_files"
    ELSE IF p.ext = "image" THEN "image_files"
    ELSE "other_files"

\* Faulty variant of count_file: the filters of the scan are applied.
count_file_with_scan_filters(stats, p) ==
    IF p.stat = "raise" \/ p.skip \/ p.size < MinFileSizeMb THEN stats
    ELSE [stats EXCEPT !.total_files = @ + 1,
                       !.total_size = @ + p.size,
                       ![category(p)] = @ + 1]

\* lines 412-429: the body of the loop for one file; an exception of
\* get_file_info is logged and the file is left out.
count_file(stats, p) ==
    IF p.stat = "raise" THEN stats
    ELSE [stats EXCEPT !.total_files = @ + 1,
                       !.total_size = @ + p.size,
                       ![category(p)] = @ + 1]

\* lines 399-400: the directory must exist.
GsValidate ==
    /\ gs_pc = "start"
    /\ IF gs_root = "missing"
          THEN gs_pc' = "failed" /\ gs_error' = "InvalidDirectoryError"
          ELSE gs_pc' = "walking" /\ UNCHANGED gs_error
    /\ UNCHANGED <<gs_root, gs_files, gs_pos, gs_stats>>
    /\ UNCHANGED notGs

\* lines 411-429: the walk hands out the next file and it is counted.
GsVisit ==
    /\ gs_pc = "walking"
    /\ gs_pos < discovered
    /\ gs_pos' = gs_pos + 1
    /\ gs_stats' = count_file(gs_stats, gs_files[gs_pos + 1])
    /\ UNCHANGED <<gs_pc, gs_root, gs_files, gs_error>>
    /\ UNCHANGED notGs

\* _discover_files, lines 224-228: the walk raised OSError; ScannerError
\* leaves get_directory_stats, whose loop at line 411 is outside the try.
GsDiscoverError ==
    /\ gs_pc = "walking"
    /\ gs_pos < discovered
    /\ gs_pc' = "failed"
    /\ gs_error' = "ScannerError"
    /\ UNCHANGED <<gs_root, gs_files, gs_pos, gs_stats>>
    /\ UNCHANGED notGs

\* line 432: the walk is exhausted, the dictionary is returned.
GsReturn ==
    /\ gs_pc = "walking"
    /\ gs_pos = discovered
    /\ gs_pc' = "done"
    /\ UNCHANGED <<gs_root, gs_files, gs_pos, gs_stats, gs_error>>
    /\ UNCHANGED notGs

GsNext ==
    \/ GsValidate
    \/ GsVisit
    \/ GsDiscoverError
    \/ GsReturn

(***************************************************************************)
(* copy_file_atomic.  The paths: "s" (a file elsewhere), "d" (a            *)
(* destination), "t" ("d" + ".tmp"), "b" ("d" + ".backup") and "bt"        *)
(* ("d" + ".backup.tmp").  A direct call copies to "d" from any of "s",    *)
(* "d", "t"; move_file_atomic also copies "d" to "b".  Every awaited file  *)
(* operation is one step and may raise.                                    *)
(***************************************************************************)
Paths == {"s", "d", "t", "b", "bt"}

Absent == <<-1>>

\* file_ops.py lines 20-33: FileOperationError and its subclasses.
FileOperationErrors ==
    {"FileOperationError", "FileNotFoundError", "FilePermissionError", "FileIntegrityError"}

destination == cp_destination

\* Path.with_suffix(suffix + extra) on the paths of the model.
with_added_suffix(p, extra) ==
    CASE p = "d" /\ extra = ".tmp" -> "t"
      [] p = "d" /\ extra = ".backup" -> "b"
      [] p = "b" /\ extra = ".tmp" -> "bt"

\* file_ops.py line 164: destination.with_suffix(destination.suffix + ".tmp")
temp_destination == with_added_suffix(destination, ".tmp")

SourceContents == {<<1>>, <<1, 2>>}

CopyStartState ==
    /\ cp_pc = "start"
    /\ cp_source \in {"s", "d", "t"}
    /\ cp_destination = "d"
    /\ cp_verify \in BOOLEAN
    /\ cp_preserve \in BOOLEAN
    /\ cp_pos = 0
    /\ cp_error = "none"
    /\ fs \in [Paths -> SourceContents \cup {<<7>>, Absent}]
    /\ fs["s"] \in SourceContents \cup {Absent}
    /\ fs["d"] \in {<<7>>, Absent} \cup (IF cp_source = "d" THEN SourceContents ELSE {})
    /\ fs["t"] \in {<<7>>, Absent} \cup (IF cp_source = "t" THEN SourceContents ELSE {})
    /\ fs["b"] = Absent
    /\ fs["bt"] = Absent
    /\ cp_src0 = fs[cp_source]
    /\ cp_dst0 = fs[destination]
    /\ cp_cause = "none"

CopyIdle ==
    /\ cp_pc = "idle"
    /\ cp_source = "s"
    /\ cp_destination = "d"
    /\ cp_verify = FALSE
    /\ cp_preserve = FALSE
    /\ cp_pos = 0
    /\ cp_error = "none"
    /\ fs = [p \in Paths |-> Absent]
    /\ cp_src0 = Absent
    /\ cp_dst0 = Absent
    /\ cp_cause = "none"

ScanIdle ==
    /\ scan_pc = "off"
    /\ scan_error = "none"
    /\ root_kind = "dir"
    /\ max_concurrent = 1
    /\ min_file_size_mb = 0
    /\ max_file_size_gb = 0
    /\ files = <<>>
    /\ file_paths = <<>>
    /\ task_pc = <<>>
    /\ task_result = <<>>
    /\ sem_value = 0
    /\ sem_waiters = <<>>
    /\ completed = <<>>
    /\ finish_order = <<>>
    /\ yielded = <<>>

\* Where the copy goes after the streaming loop, and after each later stage.
AfterStream == IF cp_preserve THEN "utime" ELSE IF cp_verify THEN "hash" ELSE "rename"

AfterUtime == IF cp_verify THEN "hash" ELSE "rename"

\* lines 157-158: the source must exist.
CopyStart ==
    /\ cp_pc = "start"
    /\ IF fs[cp_source] = Absent
          THEN cp_pc' = "failed" /\ cp_error' = "FileNotFoundError"
          ELSE cp_pc' = "ensure_dir" /\ UNCHANGED cp_error
    /\ UNCHANGED <<fs, cp_source, cp_destination, cp_verify, cp_preserve, cp_pos, cp_src0,
                   cp_dst0, cp_cause>>
    /\ UNCHANGED notCopy

\* line 161: ensure_directory(destination.parent); an OSError is re-raised as
\* FilePermissionError, outside the try block.
CopyEnsureDir ==
    /\ cp_pc = "ensure_dir"
    /\ \E fail \in BOOLEAN :
          IF fail
            THEN cp_pc' = "failed" /\ cp_error' = "FilePermissionError"
            ELSE cp_pc' = "open" /\ UNCHANGED cp_error
    /\ UNCHANGED <<fs, cp_source, cp_destination, cp_verify, cp_preserve, cp_pos, cp_src0,
                   cp_dst0, cp_cause>>
    /\ UNCHANGED notCopy

\* lines 168-170: open the source for reading, then the staging path for
\* writing, which creates or truncates it.  Either open may raise.
CopyOpen ==
    /\ cp_pc = "open"
    /\ \E fail \in BOOLEAN :
          IF fail
            THEN cp_pc' = "handler" /\ UNCHANGED <<fs, cp_pos>>
            ELSE /\ cp_pc' = "stream"
                 /\ fs' = [fs EXCEPT ![temp_destination] = <<>>]
                 /\ cp_pos' = 0
    /\ cp_cause' = IF cp_pc' = "handler" THEN "OSError" ELSE cp_cause
    /\ UNCHANGED <<cp_source, cp_destination, cp_verify, cp_preserve, cp_error, cp_src0, cp_dst0>>
    /\ UNCHANGED notCopy

\* lines 171-172: read the next chunk of the source and write it to the
\* staging file; at end of file both files are closed.
CopyChunk ==
    /\ cp_pc = "stream"
    /\ \E fail \in BOOLEAN :
          IF fail \/ fs[cp_source] = Absent
            THEN cp_pc' = "handler" /\ UNCHANGED <<fs, cp_pos>>
            ELSE IF cp_pos < Len(fs[cp_source])
              THEN /\ fs' = [fs EXCEPT ![temp_destination] =
                                  Append(fs[temp_destination], fs[cp_source][cp_pos + 1])]
                   /\ cp_pos' = cp_pos + 1
                   /\ UNCHANGED cp_pc
              ELSE /\ cp_pc' = AfterStream
                   /\ UNCHANGED <<fs, cp_pos>>
    /\ cp_cause' = IF cp_pc' = "handler" THEN "OSError" ELSE cp_cause
    /\ UNCHANGED <<cp_source, cp_destination, cp_verify, cp_preserve, cp_error, cp_src0, cp_dst0>>
    /\ UNCHANGED notCopy

\* lines 175-179: copy the source's timestamps onto the staging file.
CopyUtime ==
    /\ cp_pc = "utime"
    /\ \E fail \in BOOLEAN :
          cp_pc' = IF fail THEN "handler" ELSE AfterUtime
    /\ cp_cause' = IF cp_pc' = "handler" THEN "OSError" ELSE cp_cause
    /\ UNCHANGED <<fs, cp_source, cp_destination, cp_verify, cp_preserve, cp_pos, cp_error, cp_src0, cp_dst0>>
    /\ UNCHANGED notCopy

\* lines 182-190: hash the source and the staging file; on a mismatch remove
\* the staging file and raise FileIntegrityError, which the enclosing
\* `except Exception` receives.  Reading either file may raise, and so may
\* the remove of line 187.
CopyHash ==
    /\ cp_pc = "hash"
    /\ \E fail \in BOOLEAN :
          IF fail \/ fs[cp_source] = Absent \/ fs[temp_destination] = Absent
            THEN cp_pc' = "handler" /\ cp_cause' = "OSError" /\ UNCHANGED fs
            ELSE IF fs[cp_source] # fs[temp_destination]
              THEN /\ cp_pc' = "handler"
                   /\ \E remove_fails \in BOOLEAN :
                         IF remove_fails
                           THEN cp_cause' = "OSError" /\ UNCHANGED fs
                           ELSE /\ cp_cause' = "FileIntegrityError"
                                /\ fs' = [fs EXCEPT ![temp_destination] = Absent]
              ELSE /\ cp_pc' = "rename"
                   /\ UNCHANGED <<fs, cp_cause>>
    /\ UNCHANGED <<cp_source, cp_destination, cp_verify, cp_preserve, cp_pos, cp_error, cp_src0, cp_dst0>>
    /\ UNCHANGED notCopy

\* line 193: os.rename(temp_destination, destination).
CopyRename ==
    /\ cp_pc = "rename"
    /\ \E fail \in BOOLEAN :
          IF fail \/ fs[temp_destination] = Absent
            THEN cp_pc' = "handler" /\ UNCHANGED fs
            ELSE /\ cp_pc' = "done"
                 /\ fs' = IF temp_destination = destination THEN fs
                           ELSE [fs EXCEPT ![destination] = fs[temp_destination],
                                           ![temp_destination] = Absent]
    /\ cp_cause' = IF cp_pc' = "handler" THEN "OSError" ELSE cp_cause
    /\ UNCHANGED <<cp_source, cp_destination, cp_verify, cp_preserve, cp_pos, cp_error, cp_src0, cp_dst0>>
    /\ UNCHANGED notCopy

\* lines 204-210: remove the staging file if it exists, raise
\* FileOperationError; a failing remove raises its own OSError instead.
CopyHandler ==
    /\ cp_pc = "handler"
    /\ \E fail \in BOOLEAN :
          IF fs[temp_destination] = Absent
            THEN /\ cp_error' = "FileOperationError"
                 /\ UNCHANGED fs
            ELSE IF fail
              THEN /\ cp_error' = "OSError"
                   /\ UNCHANGED fs
              ELSE /\ cp_error' = "FileOperationError"
                   /\ fs' = [fs EXCEPT ![temp_destination] = Absent]
    /\ cp_pc' = "failed"
    /\ UNCHANGED <<cp_source, cp_destination, cp_verify, cp_preserve, cp_pos, cp_src0, cp_dst0,
                   cp_cause>>
    /\ UNCHANGED notCopy

\* Another writer of the file system: between two awaited steps of the copy,
\* after the streaming began and before the hashes are taken (lines 168-183),
\* the source file is rewritten.
ChangedContent == <<3>>

CopyEnvWrite ==
    /\ cp_pc \in {"stream", "utime", "hash"}
    /\ fs[cp_source] \in SourceContents
    /\ fs' = [fs EXCEPT ![cp_source] = ChangedContent]
    /\ UNCHANGED <<cp_pc, cp_source, cp_destination, cp_verify, cp_preserve, cp_pos, cp_error,
                   cp_src0, cp_dst0, cp_cause>>
    /\ UNCHANGED notCopy

CopyNext ==
    \/ CopyStart
    \/ CopyEnsureDir
    \/ CopyOpen
    \/ CopyChunk
    \/ CopyUtime
    \/ CopyHash
    \/ CopyRename
    \/ CopyHandler

\* A caller that calls copy_file_atomic again with the same arguments once a
\* call has ended, whether it returned or raised: the new call starts at line
\* 157 on the file system the earlier call left.
MaxRuns == 3

RrIdle == cp_runs = <<>>

CopyRerun ==
    /\ cp_pc \in {"done", "failed"}
    /\ Len(cp_runs) + 1 < MaxRuns
    /\ cp_runs' = Append(cp_runs, [error |-> cp_error, pos |-> cp_pos,
                                   staging |-> fs[temp_destination]])
    /\ cp_pc' = "start"
    /\ cp_pos' = 0
    /\ cp_error' = "none"
    /\ cp_cause' = "none"
    /\ UNCHANGED <<fs, cp_source, cp_destination, cp_verify, cp_preserve, cp_src0, cp_dst0>>
    /\ UNCHANGED notCopyRerun

CopyRerunNext ==
    \/ CopyNext
    \/ CopyRerun

(***************************************************************************)
(* move_file_atomic.  The destination is "d"; the source argument is any   *)
(* path.  The two calls of copy_file_atomic run the steps of the copy      *)
(* above; os.rename either succeeds or raises OSError (a cross-device      *)
(* move, a missing source).                                                *)
(***************************************************************************)
mv_destination == "d"

\* line 244: destination.with_suffix(destination.suffix + ".backup")
backup_path == with_added_suffix(mv_destination, ".backup")

MoveStartState ==
    /\ mv_pc = "start"
    /\ mv_source \in Paths
    /\ mv_verify \in BOOLEAN
    /\ mv_create_backup \in BOOLEAN
    /\ mv_error = "none"
    /\ fs \in [Paths -> {<<1, 2>>, <<7>>, <<9>>, Absent}]
    /\ fs[mv_source] \in {<<1, 2>>, Absent}
    /\ mv_source # "d" => fs["d"] \in {<<7>>, Absent}
    /\ mv_source # "b" => fs["b"] \in {<<9>>, Absent}
    /\ mv_source # "t" => fs["t"] = Absent
    /\ mv_source # "bt" => fs["bt"] = Absent
    /\ mv_source = "s" \/ fs["s"] = Absent
    /\ mv_src0 = fs[mv_source]
    /\ mv_dst0 = fs[mv_destination]
    /\ cp_pc = "idle"
    /\ cp_source = "s"
    /\ cp_destination = "d"
    /\ cp_verify = FALSE
    /\ cp_preserve = FALSE
    /\ cp_pos = 0
    /\ cp_error = "none"
    /\ cp_src0 = Absent
    /\ cp_dst0 = Absent
    /\ cp_cause = "none"

MoveIdle ==
    /\ mv_pc = "idle"
    /\ mv_source = "s"
    /\ mv_verify = FALSE
    /\ mv_create_backup = FALSE
    /\ mv_error = "none"
    /\ mv_src0 = Absent
    /\ mv_dst0 = Absent

moveArgs == <<mv_source, mv_verify, mv_create_backup, mv_src0, mv_dst0>>

\* A call copy_file_atomic(source, destination, verify_integrity=verify):
\* preserve_metadata keeps its default, True.
call_copy_file_atomic(source, dest, verify) ==
    /\ cp_pc' = "start"
    /\ cp_source' = source
    /\ cp_destination' = dest
    /\ cp_verify' = verify
    /\ cp_preserve' = TRUE
    /\ cp_pos' = 0
    /\ cp_error' = "none"
    /\ cp_src0' = fs[source]
    /\ cp_dst0' = fs[dest]
    /\ cp_cause' = "none"
    /\ UNCHANGED fs

copyCallState == <<cp_pc, cp_source, cp_destination, cp_verify, cp_preserve,
                   cp_pos, cp_error, cp_src0, cp_dst0, cp_cause>>

\* lines 235-236: the source must exist.
MoveStart ==
    /\ mv_pc = "start"
    /\ IF fs[mv_source] = Absent
          THEN mv_pc' = "failed" /\ mv_error' = "FileNotFoundError"
          ELSE mv_pc' = "ensure_dir" /\ UNCHANGED mv_error
    /\ UNCHANGED <<moveArgs, copyVars>>
    /\ UNCHANGED notMove

\* line 239: ensure_directory(destination.parent) may raise.
MoveEnsureDir ==
    /\ mv_pc = "ensure_dir"
    /\ \E fail \in BOOLEAN :
          IF fail
            THEN mv_pc' = "failed" /\ mv_error' = "FilePermissionError"
            ELSE mv_pc' = "backup" /\ UNCHANGED mv_error
    /\ UNCHANGED <<moveArgs, copyVars>>
    /\ UNCHANGED notMove

\* line 243: create_backup and the destination exists.
backup_wanted == mv_create_backup /\ fs[mv_destination] # Absent

\* lines 243-245: the backup copy of the destination, without verification.
MoveBackup ==
    /\ mv_pc = "backup"
    /\ IF backup_wanted
          THEN /\ call_copy_file_atomic(mv_destination, backup_path, FALSE)
               /\ mv_pc' = "backup_copy"
          ELSE /\ mv_pc' = "rename"
               /\ UNCHANGED copyVars
    /\ UNCHANGED <<moveArgs, mv_error>>
    /\ UNCHANGED notMove

\* line 245: the backup copy returns, or its error leaves move_file_atomic.
MoveBackupReturn ==
    /\ mv_pc = "backup_copy"
    /\ cp_pc \in {"done", "failed"}
    /\ IF cp_pc = "failed"
          THEN mv_pc' = "failed" /\ mv_error' = cp_error
          ELSE mv_pc' = "rename" /\ UNCHANGED mv_error
    /\ cp_pc' = "idle"
    /\ UNCHANGED <<moveArgs, fs, cp_source, cp_destination, cp_verify,
                   cp_preserve, cp_pos, cp_error, cp_src0, cp_dst0, cp_cause>>
    /\ UNCHANGED notMove

\* os.rename(source, destination) when it succeeds: the destination is
\* replaced; renaming a path to itself changes nothing.
rename(f, source, dest) ==
    IF source = dest THEN f ELSE [f EXCEPT ![dest] = f[source], ![source] = Absent]

\* lines 250-257: the rename; OSError is caught (line 257).  A missing
\* source always raises.
MoveRename ==
    /\ mv_pc = "rename"
    /\ \E fail \in BOOLEAN :
          IF fail \/ fs[mv_source] = Absent
            THEN mv_pc' = "fallback" /\ UNCHANGED fs
            ELSE mv_pc' = "done" /\ fs' = rename(fs, mv_source, mv_destination)
    /\ UNCHANGED <<moveArgs, mv_error, copyCallState>>
    /\ UNCHANGED notMove

\* line 261: copy_file_atomic(source, destination, verify_integrity).
MoveFallback ==
    /\ mv_pc = "fallback"
    /\ call_copy_file_atomic(mv_source, mv_destination, mv_verify)
    /\ mv_pc' = "fallback_copy"
    /\ UNCHANGED <<moveArgs, mv_error>>
    /\ UNCHANGED notMove

\* Faulty variant of MoveFallbackReturn: the source is removed whether or not
\* the fallback copy succeeded.
MoveFallbackReturn_always_removes ==
    /\ mv_pc = "fallback_copy"
    /\ cp_pc \in {"done", "failed"}
    /\ mv_pc' = "remove"
    /\ cp_pc' = "idle"
    /\ UNCHANGED <<moveArgs, mv_error, fs, cp_source, cp_destination, cp_verify,
                   cp_preserve, cp_pos, cp_error, cp_src0, cp_dst0, cp_cause>>
    /\ UNCHANGED notMove

\* line 261: the fallback copy returns, or its error leaves move_file_atomic.
MoveFallbackReturn ==
    /\ mv_pc = "fallback_copy"
    /\ cp_pc \in {"done", "failed"}
    /\ IF cp_pc = "failed"
          THEN mv_pc' = "failed" /\ mv_error' = cp_error
          ELSE mv_pc' = "remove" /\ UNCHANGED mv_error
    /\ cp_pc' = "idle"
    /\ UNCHANGED <<moveArgs, fs, cp_source, cp_destination, cp_verify,
                   cp_preserve, cp_pos, cp_error, cp_src0, cp_dst0, cp_cause>>
    /\ UNCHANGED notMove

\* line 262: os.remove(source); its OSError leaves move_file_atomic.
MoveRemove ==
    /\ mv_pc = "remove"
    /\ \E fail \in BOOLEAN :
          IF fail \/ fs[mv_source] = Absent
            THEN mv_pc' = "failed" /\ mv_error' = "OSError" /\ UNCHANGED fs
            ELSE /\ mv_pc' = "done"
                 /\ fs' = [fs EXCEPT ![mv_source] = Absent]
                 /\ UNCHANGED mv_error
    /\ UNCHANGED <<moveArgs, copyCallState>>
    /\ UNCHANGED notMove

CopyEnvNext ==
    \/ CopyNext
    \/ CopyEnvWrite

MoveNext ==
    \/ MoveStart
    \/ MoveEnsureDir
    \/ MoveBackup
    \/ MoveBackupReturn
    \/ MoveRename
    \/ MoveFallback
    \/ MoveFallbackReturn
    \/ MoveRemove
    \/ CopyStart
    \/ CopyEnsureDir
    \/ CopyOpen
    \/ CopyChunk
    \/ CopyUtime
    \/ CopyHash
    \/ CopyRename
    \/ CopyHandler

(***************************************************************************)
(* retry_async.  Delays are in quarter seconds, so that the 25% jitter of  *)
(* a delay is a whole number.  The wrapped operation either returns or     *)
(* raises an error of some kind; each raised error is told apart by the    *)
(* invocation that raised it.  The wrapped function is either an arbitrary *)
(* operation or MediaInfoExtractor.extract_media_info, the one function of *)
(* the repository that is decorated with retry_file_operation.             *)
(***************************************************************************)
MaxAttemptsBound == 3

\* The kinds of error the wrapped operation raises.  PermissionError is a
\* subclass of OSError, every kind is a subclass of Exception.
ErrorKinds == {"OSError", "PermissionError", "ValueError"}

\* The texts an error carries: "corrupted" stands for every text that
\* contains 'corrupted' or 'invalid' in any case, "plain" for every other.
Messages == {"plain", "corrupted"}

\* The classes an error of a kind is an instance of; media_parser.py lines
\* 32-41 for the errors of the media parser.
Bases(kind) ==
    CASE kind = "PermissionError" -> {"PermissionError", "OSError", "Exception"}
      [] kind = "OSError"         -> {"OSError", "Exception"}
      [] kind = "ValueError"      -> {"ValueError", "Exception"}
      [] kind = "UnsupportedFileError" ->
            {"UnsupportedFileError", "MediaParserError", "Exception"}
      [] kind = "CorruptedFileError" ->
            {"CorruptedFileError", "MediaParserError", "Exception"}
      [] OTHER                    -> {kind, "Exception"}

\* isinstance(exception, classes) of lines 92, 138, 171.
isinstance(exception, classes) == Bases(exception.kind) \cap classes # {}

\* The whitelists a strategy is built with: retryable_exceptions or
\* (Exception,), lines 85, 131, 164.
Whitelists == {{"Exception"}, {"OSError"}, {"PermissionError"}}

BaseDelay == 4

MaxDelay == 12

ExponentialBase == 2

Increment == 4

Strategies ==
    [kind : {"exponential", "linear", "fixed"},
     max_attempts : 0..MaxAttemptsBound,
     retryable_exceptions : Whitelists,
     jitter : BOOLEAN,
     base_delay : {BaseDelay},
     max_delay : {MaxDelay}]

\* create_file_operation_retry_strategy, lines 339-346, with the overrides of
\* retry_file_operation, lines 408-411: base_delay 0.5 s, max_delay 10 s.
\* IOError is OSError.
file_operation_retry_strategy(max_attempts) ==
    [kind |-> "exponential",
     max_attempts |-> max_attempts,
     retryable_exceptions |-> {"OSError", "PermissionError"},
     jitter |-> TRUE,
     base_delay |-> 2,
     max_delay |-> 40]

\* media_parser.py line 51: @retry_file_operation(max_attempts=2)
ExtractMaxAttempts == 2

FilePaths == {"test.mp4", "corrupted.mp4"}

\* What the operation inside the wrapped function does in one invocation:
\* for extract_media_info, MediaInfo.parse returns tracks, returns no track,
\* or raises.
Returned == [result |-> "returned", kind |-> "none", message |-> "plain"]

NoTracks == [result |-> "no_tracks", kind |-> "none", message |-> "plain"]

Raising == [result : {"raised"}, kind : ErrorKinds, message : Messages]

Outcomes(func) ==
    IF func = "extract_media_info" THEN {Returned, NoTracks} \cup Raising
    ELSE {Returned} \cup Raising

\* media_parser.py line 90: "corrupted" in str(e).lower() or "invalid" in
\* str(e).lower(), for the texts and the paths of the model.
has_corruption_marker(text) == text \in {"corrupted", "corrupted.mp4"}

\* MediaInfoExtractor.extract_media_info, media_parser.py lines 66-97, for
\* one invocation.  The UnsupportedFileError of line 73 is raised inside the
\* try block and caught by line 83 like an error of parse; its text holds the
\* path.
extract_media_info(file_path, outcome) ==
    IF outcome.result = "returned" THEN Returned
    ELSE LET text == IF outcome.result = "no_tracks" THEN file_path ELSE outcome.message
         IN  IF has_corruption_marker(text)
               THEN [result |-> "raised", kind |-> "CorruptedFileError",
                     message |-> "corrupted"]
               ELSE [result |-> "raised", kind |-> "UnsupportedFileError",
                     message |-> "plain"]

\* One invocation of the wrapped function.
invoke(func, file_path, outcome) ==
    IF func = "extract_media_info" THEN extract_media_info(file_path, outcome)
    ELSE outcome

\* Faulty variant of should_retry: one retry too many.
should_retry_wrong(strategy, attempt, exception) ==
    IF attempt > strategy.max_attempts THEN FALSE
    ELSE isinstance(exception, strategy.retryable_exceptions)

\* Faulty variant of should_retry: the class of the error must be listed
\* itself, a subclass of a listed class is not retried.
should_retry_exact_class(strategy, attempt, exception) ==
    IF attempt >= strategy.max_attempts THEN FALSE
    ELSE exception.kind \in strategy.retryable_exceptions \/
         strategy.retryable_exceptions = {"Exception"}

\* ExponentialBackoffStrategy / LinearBackoffStrategy / FixedDelayStrategy
\* .should_retry, lines 87-92, 133-138, 166-171.
should_retry(strategy, attempt, exception) ==
    IF attempt >= strategy.max_attempts THEN FALSE
    ELSE isinstance(exception, strategy.retryable_exceptions)

\* get_delay before jitter, lines 96-97, 142-143, 175.
base_delay_for(strategy, attempt) ==
    CASE strategy.kind = "exponential" ->
            Min(strategy.base_delay * (ExponentialBase ^ attempt), strategy.max_delay)
      [] strategy.kind = "linear"      ->
            Min(strategy.base_delay + Increment * attempt, strategy.max_delay)
      [] OTHER                         -> strategy.base_delay

\* The delays get_delay may return: with jitter, random.uniform over
\* [-25%, +25%] of the delay, of which the two ends and the middle are taken.
delays_for(strategy, attempt) ==
    LET delay == base_delay_for(strategy, attempt)
        jitter_range == delay \div 4
    IN  IF strategy.kind = "exponential" /\ strategy.jitter
          THEN {Max(0, delay + j) : j \in {-jitter_range, 0, jitter_range}}
          ELSE {delay}

\* RetryContext.get_final_exception, lines 210-215.
get_final_exception(attempt, exceptions) ==
    [attempts |-> attempt, last_exception |-> exceptions[Len(exceptions)]]

NoError ==
    [attempts |-> -1,
     last_exception |-> [kind |-> "none", message |-> "plain", call |-> 0]]

RetryStartState ==
    /\ rt_pc = "call"
    /\ rt_func \in {"operation", "extract_media_info"}
    /\ rt_file \in FilePaths
    /\ rt_func = "operation" => rt_file = "test.mp4"
    /\ rt_strategy \in Strategies \cup {file_operation_retry_strategy(ExtractMaxAttempts)}
    /\ rt_func = "operation" <=> rt_strategy \in Strategies
    /\ rt_outcomes = <<>>
    /\ rt_attempt = 0
    /\ rt_exceptions = <<>>
    /\ rt_total_delay = 0
    /\ rt_calls = 0
    /\ rt_sleeps = <<>>
    /\ rt_delay = 0
    /\ rt_raised = NoError

RetryIdle ==
    /\ rt_pc = "idle"
    /\ rt_strategy = [kind |-> "fixed", max_attempts |-> 0,
                      retryable_exceptions |-> {"Exception"}, jitter |-> FALSE,
                      base_delay |-> BaseDelay, max_delay |-> MaxDelay]
    /\ rt_func = "operation"
    /\ rt_file = "test.mp4"
    /\ rt_outcomes = <<>>
    /\ rt_attempt = 0
    /\ rt_exceptions = <<>>
    /\ rt_total_delay = 0
    /\ rt_calls = 0
    /\ rt_sleeps = <<>>
    /\ rt_delay = 0
    /\ rt_raised = NoError

\* retry_async lines 243-254: the operation is invoked and returns.
RetryCallReturns ==
    /\ rt_pc = "call"
    /\ \E outcome \in Outcomes(rt_func) :
          /\ invoke(rt_func, rt_file, outcome).result = "returned"
          /\ rt_outcomes' = Append(rt_outcomes, outcome)
    /\ rt_calls' = rt_calls + 1
    /\ rt_pc' = "returned"
    /\ UNCHANGED <<rt_strategy, rt_attempt, rt_exceptions, rt_total_delay, rt_sleeps,
                   rt_delay, rt_raised, rt_func, rt_file>>
    /\ UNCHANGED notRetry

\* retry_async lines 256-264 with RetryContext.should_retry lines 187-204:
\* the operation raises; the error is recorded, the strategy is asked, and
\* either the delay is computed and the sleep begins or RetryError is raised.
RetryCallRaises ==
    /\ rt_pc = "call"
    /\ \E outcome \in Outcomes(rt_func) :
         LET raised == invoke(rt_func, rt_file, outcome)
             e == [kind |-> raised.kind, message |-> raised.message, call |-> rt_calls + 1]
         IN  /\ raised.result = "raised"
             /\ rt_outcomes' = Append(rt_outcomes, outcome)
             /\ rt_calls' = rt_calls + 1
             /\ rt_exceptions' = Append(rt_exceptions, e)
             /\ IF should_retry(rt_strategy, rt_attempt, e)
                   THEN /\ \E delay \in delays_for(rt_strategy, rt_attempt) :
                             /\ rt_delay' = delay
                             /\ rt_total_delay' = rt_total_delay + delay
                        /\ rt_pc' = "sleep"
                        /\ UNCHANGED rt_raised
                   ELSE /\ rt_pc' = "raised"
                        /\ rt_raised' = get_final_exception(rt_attempt, rt_exceptions')
                        /\ UNCHANGED <<rt_delay, rt_total_delay>>
    /\ UNCHANGED <<rt_strategy, rt_attempt, rt_sleeps, rt_func, rt_file>>
    /\ UNCHANGED notRetry

\* Faulty variant of the wake-up: the attempt counter advances by two.
RetryWake_skips_attempt ==
    /\ rt_pc = "sleep"
    /\ rt_sleeps' = Append(rt_sleeps, rt_delay)
    /\ rt_attempt' = rt_attempt + 2
    /\ rt_pc' = "call"
    /\ UNCHANGED <<rt_strategy, rt_exceptions, rt_total_delay, rt_calls, rt_delay,
                   rt_raised, rt_func, rt_file, rt_outcomes>>
    /\ UNCHANGED notRetry

\* RetryContext.should_retry lines 205-208: the sleep is over, the attempt
\* counter advances and the loop of retry_async calls the operation again.
RetryWake ==
    /\ rt_pc = "sleep"
    /\ rt_sleeps' = Append(rt_sleeps, rt_delay)
    /\ rt_attempt' = rt_attempt + 1
    /\ rt_pc' = "call"
    /\ UNCHANGED <<rt_strategy, rt_exceptions, rt_total_delay, rt_calls, rt_delay,
                   rt_raised, rt_func, rt_file, rt_outcomes>>
    /\ UNCHANGED notRetry

RetryNext ==
    \/ RetryCallReturns
    \/ RetryCallRaises
    \/ RetryWake

(***************************************************************************)
(* SlidingWindowRateLimiter.  The clock is monotone and counts ticks.      *)
(* acquire() has no await between taking and releasing the lock, so each   *)
(* decision is one step; acquire_wait() sleeps outside the lock.           *)
(***************************************************************************)
MaxTime == 4

MaxSwCalls == 5

MaxRequestsBound == 2

MaxWindow == 2

SwCallers == {1, 2}

\* Faulty variant of _cleanup_old_requests: keeps a timestamp exactly one
\* window old.
RECURSIVE cleanup_old_requests_strict(_, _, _)
cleanup_old_requests_strict(requests, now, window) ==
    IF requests # <<>> /\ Head(requests) < now - window
      THEN cleanup_old_requests_strict(Tail(requests), now, window)
      ELSE requests

\* Faulty variant of _cleanup_old_requests: evicts one tick too early.
RECURSIVE cleanup_old_requests_eager(_, _, _)
cleanup_old_requests_eager(requests, now, window) ==
    IF requests # <<>> /\ Head(requests) <= now - window + 1
      THEN cleanup_old_requests_eager(Tail(requests), now, window)
      ELSE requests

\* _cleanup_old_requests, lines 209-213.
RECURSIVE cleanup_old_requests(_, _, _)
cleanup_old_requests(requests, now, window) ==
    IF requests # <<>> /\ Head(requests) <= now - window
      THEN cleanup_old_requests(Tail(requests), now, window)
      ELSE requests

\* SlidingWindowRateLimiter.acquire, lines 171-194: the decision taken under
\* the lock.  retry_after is 0 for a grant.
sw_decision(requests, now) ==
    LET kept == cleanup_old_requests(requests, now, sw_window)
    IN  IF Len(kept) >= sw_max_requests
          THEN [outcome |-> "rejected",
                retry_after |-> kept[1] + sw_window - now,
                requests |-> kept]
          ELSE [outcome |-> "granted",
                retry_after |-> 0,
                requests |-> Append(kept, now)]

\* acquire_wait, lines 203-207: how long the caller sleeps after a rejection;
\* the fallback sleep of 0.1 s ends within the tick.
sw_sleep_for(retry_after) == IF retry_after > 0 THEN retry_after ELSE 0

SwStartState ==
    /\ sw_now = 0
    /\ sw_max_requests \in 1..MaxRequestsBound
    /\ sw_window \in 1..MaxWindow
    /\ sw_requests = <<>>
    /\ sw_pc = [c \in SwCallers |-> "idle"]
    /\ sw_wake = [c \in SwCallers |-> 0]
    /\ sw_log = <<>>

SwIdle ==
    /\ sw_now = 0
    /\ sw_max_requests = 1
    /\ sw_window = 1
    /\ sw_requests = <<>>
    /\ sw_pc = <<>>
    /\ sw_wake = <<>>
    /\ sw_log = <<>>

\* time passes
SwTick ==
    /\ sw_now < MaxTime
    /\ sw_now' = sw_now + 1
    /\ UNCHANGED <<sw_max_requests, sw_window, sw_requests, sw_pc, sw_wake, sw_log>>
    /\ UNCHANGED notSw

\* A caller calls acquire(): granted, or RateLimitExceeded(retry_after).
SwAcquire(c) ==
    /\ sw_pc[c] = "idle"
    /\ Len(sw_log) < MaxSwCalls
    /\ LET d == sw_decision(sw_requests, sw_now)
       IN  /\ sw_requests' = d.requests
           /\ sw_log' = Append(sw_log, [t |-> sw_now, outcome |-> d.outcome,
                                        retry_after |-> d.retry_after])
    /\ UNCHANGED <<sw_now, sw_max_requests, sw_window, sw_pc, sw_wake>>
    /\ UNCHANGED notSw

\* One round of the loop of acquire_wait(): acquire(), and after a rejection
\* the sleep begins.
SwWaitRound(c) ==
    /\ Len(sw_log) < MaxSwCalls
    /\ LET d == sw_decision(sw_requests, sw_now)
       IN  /\ sw_requests' = d.requests
           /\ sw_log' = Append(sw_log, [t |-> sw_now, outcome |-> d.outcome,
                                        retry_after |-> d.retry_after])
           /\ IF d.outcome = "granted"
                 THEN /\ sw_pc' = [sw_pc EXCEPT ![c] = "idle"]
                      /\ UNCHANGED sw_wake
                 ELSE /\ sw_pc' = [sw_pc EXCEPT ![c] = "sleeping"]
                      /\ sw_wake' = [sw_wake EXCEPT ![c] = sw_now + sw_sleep_for(d.retry_after)]
    /\ UNCHANGED <<sw_now, sw_max_requests, sw_window>>
    /\ UNCHANGED notSw

\* A caller calls acquire_wait().
SwAcquireWait(c) ==
    /\ sw_pc[c] = "idle"
    /\ SwWaitRound(c)

\* The sleep of acquire_wait() is over: the loop calls acquire() again.
SwWake(c) ==
    /\ sw_pc[c] = "sleeping"
    /\ sw_now >= sw_wake[c]
    /\ SwWaitRound(c)

SwNext ==
    \/ SwTick
    \/ \E c \in SwCallers : SwAcquire(c)
    \/ \E c \in SwCallers : SwAcquireWait(c)
    \/ \E c \in SwCallers : SwWake(c)

(***************************************************************************)
(* TokenBucketRateLimiter.  Token amounts are kept in units of             *)
(* 1/TokenUnit token so that a refill rate below one token per tick stays  *)
(* exact; retry_after is kept as the number of units missing, its value in *)
(* ticks being that number divided by the refill rate.                     *)
(***************************************************************************)
TokenUnit == 2

MaxCapacity == 2

MaxTbCalls == 4

MaxTbTime == 3

TbCallers == {1, 2}

\* Faulty variant of _refill: no clamp at capacity.
refill_unclamped(tokens, elapsed) ==
    IF elapsed > 0 THEN tokens + elapsed * tb_refill_rate ELSE tokens

\* _refill, lines 118-126

refill(tokens, elapsed) ==
    IF elapsed > 0
      THEN Min(tb_capacity * TokenUnit, tokens + elapsed * tb_refill_rate)
      ELSE tokens

\* TokenBucketRateLimiter.acquire, lines 71-94: the decision taken under the
\* lock for a request of n tokens.
tb_decision(n) ==
    LET avail == refill(tb_tokens, tb_now - tb_last_refill)
    IN  IF avail >= n * TokenUnit
          THEN [outcome |-> "granted", retry_needed |-> 0,
                avail |-> avail, left |-> avail - n * TokenUnit]
          ELSE [outcome |-> "rejected", retry_needed |-> n * TokenUnit - avail,
                avail |-> avail, left |-> avail]

\* acquire_wait, lines 106-116: asyncio.sleep(retry_after) is over once
\* retry_after = needed / refill_rate has elapsed; a falsy retry_after sleeps
\* one second.
tb_sleep_over(began, needed) ==
    IF needed # 0
      THEN (tb_now - began) * tb_refill_rate >= needed
      ELSE tb_now - began >= 1

\* __init__, line 51
initial_tokens_of(initial, capacity) ==
    IF initial # <<>> THEN initial[1] * TokenUnit ELSE capacity * TokenUnit

TbStartState ==
    /\ tb_now = 0
    /\ tb_capacity \in 1..MaxCapacity
    /\ tb_refill_rate \in 1..TokenUnit
    /\ tb_initial \in {<<>>} \cup {<<n>> : n \in 0..(tb_capacity + 1)}
    /\ tb_tokens = initial_tokens_of(tb_initial, tb_capacity)
    /\ tb_last_refill = 0
    /\ tb_pc = [c \in TbCallers |-> "idle"]
    /\ tb_want = [c \in TbCallers |-> 0]
    /\ tb_wake = [c \in TbCallers |-> <<0, 0>>]
    /\ tb_log = <<>>

TbIdle ==
    /\ tb_now = 0
    /\ tb_capacity = 1
    /\ tb_refill_rate = 1
    /\ tb_initial = <<>>
    /\ tb_tokens = 0
    /\ tb_last_refill = 0
    /\ tb_pc = <<>>
    /\ tb_want = <<>>
    /\ tb_wake = <<>>
    /\ tb_log = <<>>

\* time passes
TbTick ==
    /\ tb_now < MaxTbTime
    /\ tb_now' = tb_now + 1
    /\ UNCHANGED <<tb_capacity, tb_refill_rate, tb_initial, tb_tokens,
                   tb_last_refill, tb_pc, tb_want, tb_wake, tb_log>>
    /\ UNCHANGED notTb

\* The body of acquire(n): refill, then grant or reject, as one step.
TbDecide(n, d) ==
    /\ Len(tb_log) < MaxTbCalls
    /\ tb_tokens' = d.left
    /\ tb_last_refill' = IF tb_now - tb_last_refill > 0 THEN tb_now ELSE tb_last_refill
    /\ tb_log' = Append(tb_log, [t |-> tb_now, op |-> "acquire", requested |-> n,
                                 outcome |-> d.outcome,
                                 retry_needed |-> d.retry_needed,
                                 avail |-> d.avail, left |-> d.left])
    /\ UNCHANGED <<tb_now, tb_capacity, tb_refill_rate, tb_initial>>

\* acquire(n) is called: granted, or RateLimitExceeded(retry_after).
TbAcquire(n) ==
    /\ TbDecide(n, tb_decision(n))
    /\ UNCHANGED <<tb_pc, tb_want, tb_wake>>
    /\ UNCHANGED notTb

\* One round of the loop of acquire_wait(n).
TbWaitRound(c, n) ==
    LET d == tb_decision(n)
    IN  /\ TbDecide(n, d)
        /\ IF d.outcome = "granted"
              THEN /\ tb_pc' = [tb_pc EXCEPT ![c] = "idle"]
                   /\ tb_want' = [tb_want EXCEPT ![c] = 0]
                   /\ tb_wake' = [tb_wake EXCEPT ![c] = <<0, 0>>]
              ELSE /\ tb_pc' = [tb_pc EXCEPT ![c] = "sleeping"]
                   /\ tb_want' = [tb_want EXCEPT ![c] = n]
                   /\ tb_wake' = [tb_wake EXCEPT ![c] = <<tb_now, d.retry_needed>>]
        /\ UNCHANGED notTb

\* A caller calls acquire_wait(n).
TbAcquireWait(c, n) ==
    /\ tb_pc[c] = "idle"
    /\ TbWaitRound(c, n)

\* The sleep of acquire_wait is over: the loop calls acquire(n) again.
TbWake(c) ==
    /\ tb_pc[c] = "sleeping"
    /\ tb_sleep_over(tb_wake[c][1], tb_wake[c][2])
    /\ TbWaitRound(c, tb_want[c])

\* reset(), lines 133-137
TbReset ==
    /\ Len(tb_log) < MaxTbCalls
    /\ tb_tokens' = tb_capacity * TokenUnit
    /\ tb_last_refill' = tb_now
    /\ tb_log' = Append(tb_log, [t |-> tb_now, op |-> "reset", requested |-> 0,
                                 outcome |-> "reset", retry_needed |-> 0,
                                 avail |-> tb_tokens,
                                 left |-> tb_capacity * TokenUnit])
    /\ UNCHANGED <<tb_now, tb_capacity, tb_refill_rate, tb_initial, tb_pc,
                   tb_want, tb_wake>>
    /\ UNCHANGED notTb

TbNext ==
    \/ TbTick
    \/ \E n \in 1..(tb_capacity + 1) : TbAcquire(n)
    \/ \E c \in TbCallers, n \in 1..(tb_capacity + 1) : TbAcquireWait(c, n)
    \/ \E c \in TbCallers : TbWake(c)
    \/ TbReset

(***************************************************************************)
(* acquire_wait of the token bucket over unbounded time.  Only differences *)
(* of clock readings enter the limiter (now - last_refill, the length of a *)
(* sleep), and none of them matters beyond TbHorizon ticks: by then the    *)
(* bucket is full and every sleep is over.  So once the clock reads        *)
(* TbHorizon a further tick moves the recorded readings back instead.      *)
(* Each caller makes one call of acquire_wait; no history is kept.         *)
(***************************************************************************)
TbHorizon == (MaxCapacity + 1) * TokenUnit

\* time passes
TbTickOn ==
    /\ IF tb_now < TbHorizon
          THEN /\ tb_now' = tb_now + 1
               /\ UNCHANGED <<tb_last_refill, tb_wake>>
          ELSE /\ tb_now' = tb_now
               /\ tb_last_refill' = Max(0, tb_last_refill - 1)
               /\ tb_wake' = [c \in TbCallers |->
                                <<Max(0, tb_wake[c][1] - 1), tb_wake[c][2]>>]
    /\ UNCHANGED <<tb_capacity, tb_refill_rate, tb_initial, tb_tokens, tb_pc,
                   tb_want, tb_log>>
    /\ UNCHANGED notTb

\* One round of the loop of acquire_wait(n), lines 102-116: acquire(n)
\* returns and so does acquire_wait, or it raises and the caller sleeps.
TbRound(c, n) ==
    LET d == tb_decision(n)
    IN  /\ tb_tokens' = d.left
        /\ tb_last_refill' = IF tb_now - tb_last_refill > 0 THEN tb_now ELSE tb_last_refill
        /\ IF d.outcome = "granted"
              THEN /\ tb_pc' = [tb_pc EXCEPT ![c] = "returned"]
                   /\ tb_wake' = [tb_wake EXCEPT ![c] = <<0, 0>>]
              ELSE /\ tb_pc' = [tb_pc EXCEPT ![c] = "sleeping"]
                   /\ tb_wake' = [tb_wake EXCEPT ![c] = <<tb_now, d.retry_needed>>]
        /\ tb_want' = [tb_want EXCEPT ![c] = n]
        /\ UNCHANGED <<tb_now, tb_capacity, tb_refill_rate, tb_initial, tb_log>>
        /\ UNCHANGED notTb

\* A caller calls acquire_wait(n).
TbCallAcquireWait(c, n) ==
    /\ tb_pc[c] = "idle"
    /\ TbRound(c, n)

\* The sleep of acquire_wait is over: the loop calls acquire(n) again.
TbSleepOver(c) ==
    /\ tb_pc[c] = "sleeping"
    /\ tb_sleep_over(tb_wake[c][1], tb_wake[c][2])
    /\ TbRound(c, tb_want[c])

TbWaitNext ==
    \/ TbTickOn
    \/ \E c \in TbCallers, n \in 1..(tb_capacity + 1) : TbCallAcquireWait(c, n)
    \/ \E c \in TbCallers : TbSleepOver(c)

(***************************************************************************)
(* AdaptiveRateLimiter.  Rates and factors are exact fractions <<n, d>> in *)
(* lowest terms, in requests per tick.  The clock starts at AdEpoch, well  *)
(* past last_request = 0.0, as time.time() does.                           *)
(***************************************************************************)
RECURSIVE GCD(_, _)
GCD(a, b) == IF b = 0 THEN a ELSE GCD(b, a % b)

RNorm(n, d) == <<n \div GCD(n, d), d \div GCD(n, d)>>

RMul(x, y) == RNorm(x[1] * y[1], x[2] * y[2])

RLe(x, y) == x[1] * y[2] <= y[1] * x[2]

RMin(x, y) == IF RLe(x, y) THEN x ELSE y

RMax(x, y) == IF RLe(x, y) THEN y ELSE x

MaxRun == 20

MaxLimited == 2

MaxAdTime == 3

AdEpoch == 8

AdCallers == {1, 2}

\* report_success, line 293: the streak length that triggers an increase
SuccessThreshold == 10

\* report_success, lines 290-307
report_success_result(rate, successes) ==
    IF successes + 1 >= SuccessThreshold
      THEN [rate |-> RMin(ad_max_rate, RMul(rate, ad_increase_factor)),
            successes |-> 0]
      ELSE [rate |-> rate, successes |-> successes + 1]

\* Faulty variant of report_rate_limited: the streak survives.
report_rate_limited_keeps_streak(rate, successes) ==
    [rate |-> RMax(ad_min_rate, RMul(rate, ad_decrease_factor)),
     successes |-> successes]

\* report_rate_limited, lines 312-316

report_rate_limited_result(rate, successes) ==
    [rate |-> RMax(ad_min_rate, RMul(rate, ad_decrease_factor)),
     successes |-> 0]

\* Faulty variant of remaining_delay_positive: the required delay is the rate
\* itself, not its inverse.
remaining_delay_of_rate_positive(rate, last) == rate[1] > (ad_now - last) * rate[2]

\* acquire, lines 271-277: remaining_delay > 0, for 1 / rate - (now - last)
remaining_delay_positive(rate, last) == rate[2] > (ad_now - last) * rate[1]

AdStartState ==
    /\ ad_now = AdEpoch
    /\ ad_min_rate = <<1, 2>>
    /\ ad_max_rate = <<2, 1>>
    /\ ad_increase_factor \in {<<11, 10>>, <<2, 1>>}
    /\ ad_decrease_factor = <<1, 2>>
    /\ ad_initial_rate \in {<<1, 4>>, <<1, 1>>, <<4, 1>>}
    /\ ad_current_rate = ad_initial_rate
    /\ ad_last_request = 0
    /\ ad_consecutive_successes = 0
    /\ ad_lock = 0
    /\ ad_pc = [c \in AdCallers |-> "idle"]
    /\ ad_wake = [c \in AdCallers |-> <<>>]
    /\ ad_run = 0
    /\ ad_limited = 0
    /\ ad_prev_rate = ad_current_rate
    /\ ad_last_report = "none"

AdIdle ==
    /\ ad_now = 0
    /\ ad_min_rate = <<1, 1>>
    /\ ad_max_rate = <<1, 1>>
    /\ ad_increase_factor = <<1, 1>>
    /\ ad_decrease_factor = <<1, 1>>
    /\ ad_initial_rate = <<1, 1>>
    /\ ad_current_rate = <<1, 1>>
    /\ ad_last_request = 0
    /\ ad_consecutive_successes = 0
    /\ ad_lock = 0
    /\ ad_pc = <<>>
    /\ ad_wake = <<>>
    /\ ad_run = 0
    /\ ad_limited = 0
    /\ ad_prev_rate = <<1, 1>>
    /\ ad_last_report = "none"

adParams == <<ad_initial_rate, ad_min_rate, ad_max_rate, ad_increase_factor, ad_decrease_factor>>

adReportState == <<ad_current_rate, ad_consecutive_successes, ad_run,
                   ad_limited, ad_prev_rate, ad_last_report>>

\* time passes
AdTick ==
    /\ ad_now < AdEpoch + MaxAdTime
    /\ ad_now' = ad_now + 1
    /\ UNCHANGED <<adParams, adReportState, ad_last_request, ad_lock, ad_pc, ad_wake>>
    /\ UNCHANGED notAd

\* acquire(), lines 269-280: take the lock; either the spacing has already
\* elapsed and last_request is stamped at once, or the caller sleeps with
\* the lock held.
AdAcquire(c) ==
    /\ ad_pc[c] = "idle"
    /\ ad_lock = 0
    /\ IF remaining_delay_positive(ad_current_rate, ad_last_request)
         THEN /\ ad_lock' = c
              /\ ad_pc' = [ad_pc EXCEPT ![c] = "sleeping"]
              /\ ad_wake' = [ad_wake EXCEPT ![c] = <<ad_last_request, ad_current_rate>>]
              /\ UNCHANGED ad_last_request
         ELSE /\ ad_last_request' = ad_now
              /\ UNCHANGED <<ad_lock, ad_pc, ad_wake>>
    /\ UNCHANGED <<ad_now, adParams, adReportState>>
    /\ UNCHANGED notAd

\* The sleep inside acquire() is over: stamp last_request, release the lock.
AdWake(c) ==
    /\ ad_pc[c] = "sleeping"
    /\ ~remaining_delay_positive(ad_wake[c][2], ad_wake[c][1])
    /\ ad_last_request' = ad_now
    /\ ad_lock' = 0
    /\ ad_pc' = [ad_pc EXCEPT ![c] = "idle"]
    /\ ad_wake' = [ad_wake EXCEPT ![c] = <<>>]
    /\ UNCHANGED <<ad_now, adParams, adReportState>>
    /\ UNCHANGED notAd

\* report_success(), lines 287-307
AdReportSuccess ==
    /\ ad_lock = 0
    /\ ad_run < MaxRun
    /\ LET r == report_success_result(ad_current_rate, ad_consecutive_successes)
       IN  /\ ad_current_rate' = r.rate
           /\ ad_consecutive_successes' = r.successes
    /\ ad_run' = ad_run + 1
    /\ ad_prev_rate' = ad_current_rate
    /\ ad_last_report' = "success"
    /\ UNCHANGED <<ad_now, adParams, ad_limited, ad_last_request, ad_lock, ad_pc, ad_wake>>
    /\ UNCHANGED notAd

\* report_rate_limited(), lines 309-322
AdReportRateLimited ==
    /\ ad_lock = 0
    /\ ad_limited < MaxLimited
    /\ LET r == report_rate_limited_result(ad_current_rate, ad_consecutive_successes)
       IN  /\ ad_current_rate' = r.rate
           /\ ad_consecutive_successes' = r.successes
    /\ ad_run' = 0
    /\ ad_limited' = ad_limited + 1
    /\ ad_prev_rate' = ad_current_rate
    /\ ad_last_report' = "rate_limited"
    /\ UNCHANGED <<ad_now, adParams, ad_last_request, ad_lock, ad_pc, ad_wake>>
    /\ UNCHANGED notAd

AdNext ==
    \/ AdTick
    \/ \E c \in AdCallers : AdAcquire(c)
    \/ \E c \in AdCallers : AdWake(c)
    \/ AdReportSuccess
    \/ AdReportRateLimited

(***************************************************************************)
(* RateLimitedClient.call.  The limiter is seen through its interface: the *)
(* token-bucket and sliding-window limiters have acquire_wait, which       *)
(* returns, and acquire, which returns or raises RateLimitExceeded; the    *)
(* adaptive limiter has only acquire, which returns.  The wrapped          *)
(* operation returns, raises RateLimitExceeded, or raises another error.   *)
(***************************************************************************)
MaxRetriesBound == 2

Limiters == {"token_bucket", "sliding_window", "adaptive"}

RcStartState ==
    /\ rc_pc = "loop"
    /\ rc_limiter \in Limiters
    /\ rc_auto_retry \in BOOLEAN
    /\ rc_max_retries \in (-1)..MaxRetriesBound
    /\ rc_retries = 0
    /\ rc_sleep = 0
    /\ rc_error = "none"
    /\ rc_log = <<>>

RcIdle ==
    /\ rc_pc = "idle"
    /\ rc_limiter = "adaptive"
    /\ rc_auto_retry = FALSE
    /\ rc_max_retries = 0
    /\ rc_retries = 0
    /\ rc_sleep = 0
    /\ rc_error = "none"
    /\ rc_log = <<>>

rcConfig == <<rc_limiter, rc_auto_retry, rc_max_retries>>

Event(kind, n) == [ev |-> kind, n |-> n]

\* line 376: hasattr(self.rate_limiter, "acquire_wait") and self.auto_retry
uses_acquire_wait == rc_limiter # "adaptive" /\ rc_auto_retry

\* lines 376-379: what the acquire step can do.
acquire_outcomes ==
    IF uses_acquire_wait \/ rc_limiter = "adaptive"
      THEN {"acquired"}
      ELSE {"acquired", "rejected"}

\* Faulty variant: the wait is computed from the old value of retries.
backoff_old_retries(retries) == 2 ^ (retries - 1)

\* line 406: asyncio.sleep(2**retries)
backoff(retries) == 2 ^ retries

\* line 391: `not self.auto_retry or retries >= self.max_retries` re-raises.
retry_allowed(retries) == rc_auto_retry /\ retries < rc_max_retries

\* line 373: the loop test; line 408 when it fails.
RcLoop ==
    /\ rc_pc = "loop"
    /\ IF rc_retries <= rc_max_retries
          THEN rc_pc' = "acquire" /\ UNCHANGED rc_error
          ELSE rc_pc' = "raised" /\ rc_error' = "RateLimitExceeded"
    /\ UNCHANGED <<rcConfig, rc_retries, rc_sleep, rc_log>>
    /\ UNCHANGED notRc

\* lines 375-379: acquire_wait() or acquire().
RcAcquire ==
    /\ rc_pc = "acquire"
    /\ \E o \in acquire_outcomes :
          /\ rc_log' = Append(rc_log, Event(o, 0))
          /\ rc_pc' = IF o = "acquired" THEN "invoke" ELSE "handler"
    /\ UNCHANGED <<rcConfig, rc_retries, rc_sleep, rc_error>>
    /\ UNCHANGED notRc

\* line 382: the wrapped operation; an error other than RateLimitExceeded
\* leaves call().
RcInvoke ==
    /\ rc_pc = "invoke"
    /\ \E o \in {"returned", "rate_limited", "failed"} :
          /\ rc_log' = Append(rc_log, Event(o, 0))
          /\ rc_pc' = CASE o = "returned" -> "report"
                        [] o = "rate_limited" -> "handler"
                        [] OTHER -> "raised"
          /\ rc_error' = IF o = "failed" THEN "Exception" ELSE rc_error
    /\ UNCHANGED <<rcConfig, rc_retries, rc_sleep>>
    /\ UNCHANGED notRc

\* lines 384-388: report_success() to an adaptive limiter, then return.
RcReturn ==
    /\ rc_pc = "report"
    /\ rc_log' = IF rc_limiter = "adaptive"
                   THEN Append(rc_log, Event("report_success", 0))
                   ELSE rc_log
    /\ rc_pc' = "returned"
    /\ UNCHANGED <<rcConfig, rc_retries, rc_sleep, rc_error>>
    /\ UNCHANGED notRc

\* lines 390-406: RateLimitExceeded is re-raised, or retries is incremented,
\* an adaptive limiter is told, and the caller sleeps.
RcHandler ==
    /\ rc_pc = "handler"
    /\ IF ~retry_allowed(rc_retries)
          THEN /\ rc_pc' = "raised"
               /\ rc_error' = "RateLimitExceeded"
               /\ UNCHANGED <<rc_retries, rc_sleep, rc_log>>
          ELSE /\ rc_retries' = rc_retries + 1
               /\ rc_sleep' = backoff(rc_retries + 1)
               /\ rc_log' = IF rc_limiter = "adaptive"
                              THEN rc_log \o <<Event("report_rate_limited", 0),
                                              Event("sleep", backoff(rc_retries + 1))>>
                              ELSE Append(rc_log, Event("sleep", backoff(rc_retries + 1)))
               /\ rc_pc' = "sleeping"
               /\ UNCHANGED rc_error
    /\ UNCHANGED rcConfig
    /\ UNCHANGED notRc

\* line 406: the sleep is over; back to the loop test.
RcWake ==
    /\ rc_pc = "sleeping"
    /\ rc_pc' = "loop"
    /\ rc_sleep' = 0
    /\ UNCHANGED <<rcConfig, rc_retries, rc_error, rc_log>>
    /\ UNCHANGED notRc

RcNext ==
    \/ RcLoop
    \/ RcAcquire
    \/ RcInvoke
    \/ RcReturn
    \/ RcHandler
    \/ RcWake

(***************************************************************************)
(* MediaFileParser.parse_media_file.  The MediaFile is a record of its     *)
(* path and its three processing fields.  error_message is a sequence of   *)
(* text pieces, None being the empty sequence; processed_at is "None", an  *)
(* earlier time or the time of this call.  The tracks of the file are      *)
(* well formed, or hold a value that int() or float() rejects.             *)
(***************************************************************************)
\* ProcessingStatus, media_file.py lines 203-213.
ProcessingStatus ==
    {"pending", "scanning", "identifying", "fetching_metadata", "organizing",
     "completed", "failed", "skipped"}

None == <<>>

NoException == [kind |-> "none", message |-> "plain"]

\* Faulty variant of update_status: only a completed file is stamped.
update_status_stamps_completed_only(media_file, status, error) ==
    [media_file EXCEPT
        !.processing_status = status,
        !.error_message = error,
        !.processed_at = IF status = "completed" THEN "now" ELSE @]

\* MediaFile.update_status, media_file.py lines 271-276.
update_status(media_file, status, error) ==
    [media_file EXCEPT
        !.processing_status = status,
        !.error_message = error,
        !.processed_at = IF status \in {"completed", "failed"} THEN "now" ELSE @]

PmStartState ==
    /\ pm_pc = "start"
    /\ pm_media_file \in [file_path : FilePaths,
                          processing_status : ProcessingStatus,
                          error_message : {None, <<"earlier failure">>},
                          processed_at : {"None", "earlier"}]
    /\ pm_tracks \in {"well_formed", "malformed"}
    /\ pm_exception = NoException
    /\ pm_raised = "none"

PmIdle ==
    /\ pm_pc = "idle"
    /\ pm_media_file = [file_path |-> "test.mp4", processing_status |-> "pending",
                        error_message |-> None, processed_at |-> "None"]
    /\ pm_tracks = "well_formed"
    /\ pm_exception = NoException
    /\ pm_raised = "none"

\* Line 400: update_status(ProcessingStatus.SCANNING).
PmScanning ==
    /\ pm_pc = "start"
    /\ pm_media_file' = update_status(pm_media_file, "scanning", None)
    /\ pm_pc' = "extract"
    /\ UNCHANGED <<pm_tracks, pm_exception, pm_raised>>
    /\ UNCHANGED notPm

\* What awaiting the decorated extract_media_info gives (line 403 with
\* retry.py lines 243-264): the result of the first invocation when it
\* returns, and RetryError around its error when the strategy of the
\* decorator refuses a retry.
await_extract_media_info(file_path, outcome) ==
    LET first == extract_media_info(file_path, outcome)
        strategy == file_operation_retry_strategy(ExtractMaxAttempts)
    IN  IF first.result = "returned" THEN first
        ELSE IF should_retry(strategy, 0, first) THEN [first EXCEPT !.result = "retried"]
        ELSE [result |-> "raised", kind |-> "RetryError", message |-> first.message]

\* Line 403: the extraction returns the MediaInfo object.
PmExtractReturns ==
    /\ pm_pc = "extract"
    /\ \E outcome \in Outcomes("extract_media_info") :
          await_extract_media_info(pm_media_file.file_path, outcome).result = "returned"
    /\ pm_pc' = "fill"
    /\ UNCHANGED <<pm_media_file, pm_tracks, pm_exception, pm_raised>>
    /\ UNCHANGED notPm

\* Line 403: the extraction raises; line 443 catches the error.
PmExtractRaises ==
    /\ pm_pc = "extract"
    /\ \E outcome \in Outcomes("extract_media_info") :
         LET awaited == await_extract_media_info(pm_media_file.file_path, outcome)
         IN  /\ awaited.result = "raised"
             /\ pm_exception' = [kind |-> awaited.kind, message |-> awaited.message]
    /\ pm_pc' = "handler"
    /\ UNCHANGED <<pm_media_file, pm_tracks, pm_raised>>
    /\ UNCHANGED notPm

\* Lines 406-427: the three extract_*_info calls and the assignments to
\* media_file.info; int() or float() of a malformed track value raises
\* ValueError (lines 151-167, 264-269).
PmFill ==
    /\ pm_pc = "fill"
    /\ IF pm_tracks = "well_formed"
          THEN /\ pm_pc' = "complete"
               /\ UNCHANGED pm_exception
          ELSE /\ pm_pc' = "handler"
               /\ pm_exception' = [kind |-> "ValueError", message |-> "plain"]
    /\ UNCHANGED <<pm_media_file, pm_tracks, pm_raised>>
    /\ UNCHANGED notPm

\* Lines 430-441: update_status(ProcessingStatus.COMPLETED), the log line
\* and the return.
PmCompleted ==
    /\ pm_pc = "complete"
    /\ pm_media_file' = update_status(pm_media_file, "completed", None)
    /\ pm_pc' = "returned"
    /\ UNCHANGED <<pm_tracks, pm_exception, pm_raised>>
    /\ UNCHANGED notPm

\* Line 444: f"Failed to parse media file: {e}".
error_msg(e) == <<"Failed to parse media file: ", e.kind, e.message>>

\* Lines 443-454: the handler marks the file failed and raises
\* MediaParserError.
PmHandler ==
    /\ pm_pc = "handler"
    /\ pm_media_file' = update_status(pm_media_file, "failed", error_msg(pm_exception))
    /\ pm_raised' = "MediaParserError"
    /\ pm_pc' = "raised"
    /\ UNCHANGED <<pm_tracks, pm_exception>>
    /\ UNCHANGED notPm

PmNext ==
    \/ PmScanning
    \/ PmExtractReturns
    \/ PmExtractRaises
    \/ PmFill
    \/ PmCompleted
    \/ PmHandler

(***************************************************************************)
(* ExponentialBackoffStrategy.get_delay called on its own.  Delays are in  *)
(* quarter seconds as above.  exponential_base is the float 2.0, and a     *)
(* float power whose value is 2^FloatMaxExp or more raises OverflowError.  *)
(* From 2^SaturatingExponent on, the product with a positive base_delay    *)
(* exceeds every max_delay of the model, so the power is computed only up  *)
(* to there.                                                               *)
(***************************************************************************)
FloatMaxExp == 1024

MaxAttemptArg == 1025

SaturatingExponent == 8

DelayStrategies ==
    [kind : {"exponential"}, max_attempts : {MaxAttemptArg},
     retryable_exceptions : {{"Exception"}}, jitter : BOOLEAN,
     base_delay : {0, BaseDelay}, max_delay : {0, MaxDelay, 40}]

GdStartState ==
    /\ gd_pc = "power"
    /\ gd_strategy \in DelayStrategies
    /\ gd_attempt \in 0..MaxAttemptArg
    /\ gd_delay = 0
    /\ gd_raised = "none"

GdIdle ==
    /\ gd_pc = "idle"
    /\ gd_strategy = [kind |-> "exponential", max_attempts |-> 0,
                      retryable_exceptions |-> {"Exception"}, jitter |-> FALSE,
                      base_delay |-> 0, max_delay |-> 0]
    /\ gd_attempt = 0
    /\ gd_delay = 0
    /\ gd_raised = "none"

\* exponential_base**attempt of line 96 overflows.
power_overflows(attempt) == attempt >= FloatMaxExp

\* Lines 96-97 when the power is finite: min(base_delay * base**attempt,
\* max_delay).
capped_delay(strategy, attempt) ==
    Min(strategy.base_delay * (ExponentialBase ^ Min(attempt, SaturatingExponent)),
        strategy.max_delay)

\* Line 96: the power is computed, or raises OverflowError.
GdPower ==
    /\ gd_pc = "power"
    /\ IF power_overflows(gd_attempt)
          THEN /\ gd_pc' = "raised"
               /\ gd_raised' = "OverflowError"
               /\ UNCHANGED gd_delay
          ELSE /\ gd_pc' = "jitter"
               /\ gd_delay' = capped_delay(gd_strategy, gd_attempt)
               /\ UNCHANGED gd_raised
    /\ UNCHANGED <<gd_strategy, gd_attempt>>
    /\ UNCHANGED notGd

\* Lines 99-104: the jitter, random.uniform over [-25%, +25%] of the delay
\* (its two ends and its middle are taken), and max(0, delay).
GdReturn ==
    /\ gd_pc = "jitter"
    /\ LET jitter_range == gd_delay \div 4
       IN  \E j \in (IF gd_strategy.jitter THEN {-jitter_range, 0, jitter_range} ELSE {0}) :
              gd_delay' = Max(0, gd_delay + j)
    /\ gd_pc' = "returned"
    /\ UNCHANGED <<gd_strategy, gd_attempt, gd_raised>>
    /\ UNCHANGED notGd

GdNext ==
    \/ GdPower
    \/ GdReturn

(***************************************************************************)
(* Two concurrent calls copy_file_atomic(source_c, destination) with       *)
(* different sources and one destination, hence one staging path.  A path  *)
(* names a file; a handle opened for writing keeps writing to its file at  *)
(* its own offset whatever happens to the name afterwards (rename,         *)
(* remove), and opening an existing path with "wb" empties the very file   *)
(* other handles write to.  A write past the end of the file leaves a gap  *)
(* of zero bytes.  Only the failures the two calls cause each other are    *)
(* modelled.                                                               *)
(***************************************************************************)
Copiers == {1, 2}

source_content(c) == IF c = 1 THEN <<1, 2>> ELSE <<3, 4>>

OldDestination == <<7>>

CcStartState ==
    /\ \E old \in {0, 1} :
          /\ cc_names = [p \in {"t", "d"} |-> IF p = "d" THEN old ELSE 0]
          /\ cc_data = IF old = 1 THEN <<OldDestination>> ELSE <<>>
    /\ cc_pc = [c \in Copiers |-> "open"]
    /\ cc_pos = [c \in Copiers |-> 0]
    /\ cc_handle = [c \in Copiers |-> 0]
    /\ cc_error = [c \in Copiers |-> "none"]
    /\ cc_verify \in BOOLEAN
    /\ cc_preserve \in BOOLEAN

CcIdle ==
    /\ cc_names = <<>>
    /\ cc_data = <<>>
    /\ cc_pc = <<>>
    /\ cc_pos = <<>>
    /\ cc_handle = <<>>
    /\ cc_error = <<>>
    /\ cc_verify = FALSE
    /\ cc_preserve = FALSE

ccArgs == <<cc_verify, cc_preserve>>

\* The content a write of one byte at an offset leaves.
write_at(content, offset, byte) ==
    IF offset < Len(content) THEN [content EXCEPT ![offset + 1] = byte]
    ELSE content \o [i \in 1..(offset - Len(content)) |-> 0] \o <<byte>>

CcAfterStream == IF cc_preserve THEN "utime" ELSE IF cc_verify THEN "hash" ELSE "rename"

CcAfterUtime == IF cc_verify THEN "hash" ELSE "rename"

\* lines 157-170: the source exists, the directory exists; the staging path
\* is opened with "wb", which creates the file or empties the existing one.
CcOpen(c) ==
    /\ cc_pc[c] = "open"
    /\ IF cc_names["t"] = 0
          THEN /\ cc_data' = Append(cc_data, <<>>)
               /\ cc_names' = [cc_names EXCEPT !["t"] = Len(cc_data) + 1]
               /\ cc_handle' = [cc_handle EXCEPT ![c] = Len(cc_data) + 1]
          ELSE /\ cc_data' = [cc_data EXCEPT ![cc_names["t"]] = <<>>]
               /\ cc_handle' = [cc_handle EXCEPT ![c] = cc_names["t"]]
               /\ UNCHANGED cc_names
    /\ cc_pc' = [cc_pc EXCEPT ![c] = "stream"]
    /\ UNCHANGED <<cc_pos, cc_error, ccArgs>>
    /\ UNCHANGED notCc

\* lines 171-172: the next chunk is written through the handle; at the end
\* of the source the handle is closed.
CcChunk(c) ==
    /\ cc_pc[c] = "stream"
    /\ IF cc_pos[c] < Len(source_content(c))
          THEN /\ cc_data' = [cc_data EXCEPT ![cc_handle[c]] =
                                 write_at(@, cc_pos[c], source_content(c)[cc_pos[c] + 1])]
               /\ cc_pos' = [cc_pos EXCEPT ![c] = @ + 1]
               /\ UNCHANGED <<cc_pc, cc_handle>>
          ELSE /\ cc_pc' = [cc_pc EXCEPT ![c] = CcAfterStream]
               /\ cc_handle' = [cc_handle EXCEPT ![c] = 0]
               /\ UNCHANGED <<cc_data, cc_pos>>
    /\ UNCHANGED <<cc_names, cc_error, ccArgs>>
    /\ UNCHANGED notCc

\* lines 175-179: utime on the staging path, which raises when the path is
\* gone.
CcUtime(c) ==
    /\ cc_pc[c] = "utime"
    /\ cc_pc' = [cc_pc EXCEPT ![c] = IF cc_names["t"] = 0 THEN "handler" ELSE CcAfterUtime]
    /\ UNCHANGED <<cc_names, cc_data, cc_pos, cc_handle, cc_error, ccArgs>>
    /\ UNCHANGED notCc

\* lines 182-190: the hashes of the source and of the file at the staging
\* path; on a mismatch the staging path is removed and FileIntegrityError
\* goes to the handler.
CcHash(c) ==
    /\ cc_pc[c] = "hash"
    /\ IF cc_names["t"] = 0
          THEN /\ cc_pc' = [cc_pc EXCEPT ![c] = "handler"]
               /\ UNCHANGED cc_names
          ELSE IF cc_data[cc_names["t"]] # source_content(c)
          THEN /\ cc_pc' = [cc_pc EXCEPT ![c] = "handler"]
               /\ cc_names' = [cc_names EXCEPT !["t"] = 0]
          ELSE /\ cc_pc' = [cc_pc EXCEPT ![c] = "rename"]
               /\ UNCHANGED cc_names
    /\ UNCHANGED <<cc_data, cc_pos, cc_handle, cc_error, ccArgs>>
    /\ UNCHANGED notCc

\* line 193: os.rename(temp_destination, destination).
CcRename(c) ==
    /\ cc_pc[c] = "rename"
    /\ IF cc_names["t"] = 0
          THEN /\ cc_pc' = [cc_pc EXCEPT ![c] = "handler"]
               /\ UNCHANGED cc_names
          ELSE /\ cc_pc' = [cc_pc EXCEPT ![c] = "done"]
               /\ cc_names' = [cc_names EXCEPT !["d"] = cc_names["t"], !["t"] = 0]
    /\ UNCHANGED <<cc_data, cc_pos, cc_handle, cc_error, ccArgs>>
    /\ UNCHANGED notCc

\* lines 204-210: the staging path is removed if it exists, then
\* FileOperationError is raised.
CcHandler(c) ==
    /\ cc_pc[c] = "handler"
    /\ cc_names' = [cc_names EXCEPT !["t"] = 0]
    /\ cc_error' = [cc_error EXCEPT ![c] = "FileOperationError"]
    /\ cc_pc' = [cc_pc EXCEPT ![c] = "failed"]
    /\ UNCHANGED <<cc_data, cc_pos, cc_handle, ccArgs>>
    /\ UNCHANGED notCc

CcNext ==
    \/ \E c \in Copiers : CcOpen(c)
    \/ \E c \in Copiers : CcChunk(c)
    \/ \E c \in Copiers : CcUtime(c)
    \/ \E c \in Copiers : CcHash(c)
    \/ \E c \in Copiers : CcRename(c)
    \/ \E c \in Copiers : CcHandler(c)

vars == <<scanVars, copyVars, moveVars, retryVars, swVars, tbVars, adVars, rcVars, gsVars, pmVars, rrVars, gdVars, ccVars>>

ScanInit == ScanStart /\ CopyIdle /\ MoveIdle /\ RetryIdle /\ SwIdle /\ TbIdle /\ AdIdle /\ RcIdle /\ GsIdle /\ PmIdle /\ RrIdle /\ GdIdle /\ CcIdle

CopyInit == CopyStartState /\ MoveIdle /\ ScanIdle /\ RetryIdle /\ SwIdle /\ TbIdle /\ AdIdle /\ RcIdle /\ GsIdle /\ PmIdle /\ RrIdle /\ GdIdle /\ CcIdle

ScanE2EInit == ScanE2EStart /\ CopyIdle /\ MoveIdle /\ RetryIdle /\ SwIdle /\ TbIdle /\ AdIdle /\ RcIdle /\ GsIdle /\ PmIdle /\ RrIdle /\ GdIdle /\ CcIdle

RetryInit == RetryStartState /\ ScanIdle /\ CopyIdle /\ MoveIdle /\ SwIdle /\ TbIdle /\ AdIdle /\ RcIdle /\ GsIdle /\ PmIdle /\ RrIdle /\ GdIdle /\ CcIdle

SwInit == SwStartState /\ ScanIdle /\ CopyIdle /\ MoveIdle /\ RetryIdle /\ TbIdle /\ AdIdle /\ RcIdle /\ GsIdle /\ PmIdle /\ RrIdle /\ GdIdle /\ CcIdle

TbInit == TbStartState /\ ScanIdle /\ CopyIdle /\ MoveIdle /\ RetryIdle /\ SwIdle /\ AdIdle /\ RcIdle /\ GsIdle /\ PmIdle /\ RrIdle /\ GdIdle /\ CcIdle

MoveInit == MoveStartState /\ ScanIdle /\ RetryIdle /\ SwIdle /\ TbIdle /\ AdIdle /\ RcIdle /\ GsIdle /\ PmIdle /\ RrIdle /\ GdIdle /\ CcIdle

RcInit ==
    RcStartState /\ ScanIdle /\ CopyIdle /\ MoveIdle /\ RetryIdle /\ SwIdle /\ TbIdle /\ AdIdle /\ GsIdle /\ PmIdle /\ RrIdle /\ GdIdle /\ CcIdle

AdInit == AdStartState /\ ScanIdle /\ CopyIdle /\ MoveIdle /\ RetryIdle /\ SwIdle /\ TbIdle /\ RcIdle /\ GsIdle /\ PmIdle /\ RrIdle /\ GdIdle /\ CcIdle

GsInit ==
    GsStartState /\ ScanIdle /\ CopyIdle /\ MoveIdle /\ RetryIdle /\ SwIdle /\ TbIdle /\ AdIdle /\ RcIdle /\ PmIdle /\ RrIdle /\ GdIdle /\ CcIdle

PmInit ==
    PmStartState /\ ScanIdle /\ CopyIdle /\ MoveIdle /\ RetryIdle /\ SwIdle /\ TbIdle /\ AdIdle /\ RcIdle /\ GsIdle /\ RrIdle /\ GdIdle /\ CcIdle

SpecPm == PmInit /\ [][PmNext]_vars

GdInit ==
    GdStartState /\ ScanIdle /\ CopyIdle /\ MoveIdle /\ RetryIdle /\ SwIdle /\ TbIdle /\ AdIdle /\ RcIdle /\ GsIdle /\ PmIdle /\ RrIdle /\ CcIdle

SpecGd == GdInit /\ [][GdNext]_vars

CcInit ==
    CcStartState /\ ScanIdle /\ CopyIdle /\ MoveIdle /\ RetryIdle /\ SwIdle /\ TbIdle /\ AdIdle /\ RcIdle /\ GsIdle /\ PmIdle /\ RrIdle /\ GdIdle

SpecCc == CcInit /\ [][CcNext]_vars

SpecGs == GsInit /\ [][GsNext]_vars

SpecRc == RcInit /\ [][RcNext]_vars

SpecAd == AdInit /\ [][AdNext]_vars

SpecTb == TbInit /\ [][TbNext]_vars

\* The clock keeps running, and the event loop resumes a caller whose sleep
\* is over.
TbWaitFairness ==
    /\ WF_vars(TbTickOn)
    /\ \A c \in TbCallers : WF_vars(TbSleepOver(c))

SpecTbWait == TbInit /\ [][TbWaitNext]_vars /\ TbWaitFairness

SpecSw == SwInit /\ [][SwNext]_vars

SpecRetry == RetryInit /\ [][RetryNext]_vars

SpecScanE2E == ScanE2EInit /\ [][ScanNext]_vars

SpecScan == ScanInit /\ [][ScanNext]_vars

ScanAbortInit ==
    ScanAbortStart /\ CopyIdle /\ MoveIdle /\ RetryIdle /\ SwIdle /\ TbIdle /\ AdIdle /\ RcIdle /\ GsIdle /\ PmIdle /\ RrIdle /\ GdIdle /\ CcIdle

ScanFairInit ==
    ScanFairStart /\ CopyIdle /\ MoveIdle /\ RetryIdle /\ SwIdle /\ TbIdle /\ AdIdle /\ RcIdle /\ GsIdle /\ PmIdle /\ RrIdle /\ GdIdle /\ CcIdle

\* The event loop runs every task that can run, each awaited file operation
\* of an analysis returns, and the consumer keeps iterating the generator.
ScanFairness ==
    /\ \A t \in FileIds : WF_vars(TaskStart(t))
    /\ \A t \in FileIds : WF_vars(TaskResume(t))
    /\ \A t \in FileIds : WF_vars(TaskStat(t))
    /\ \A t \in FileIds : WF_vars(TaskVerify(t))
    /\ WF_vars(ScanConsume)
    /\ WF_vars(ScanFinish)

SpecScanFair == ScanFairInit /\ [][ScanNext]_vars /\ ScanFairness

SpecScanAbort == ScanAbortInit /\ [][ScanAbortNext]_vars

SpecCopyRerun == CopyInit /\ [][CopyRerunNext]_vars

SpecCopy == CopyInit /\ [][CopyNext]_vars

SpecCopyEnv == CopyInit /\ [][CopyEnvNext]_vars

SpecMove == MoveInit /\ [][MoveNext]_vars

(***************************************************************************)
(* Claims about the scanner.                                               *)
(***************************************************************************)

\* C1: during the analysis phase the number of analysis units that hold the
\* concurrency gate (acquired, not yet released) never exceeds max_concurrent
\* and the gate's counter never goes below zero, for limits 1, 2 and
\* NFiles + 1.
C1_GateBound ==
    /\ Cardinality(Holding) <= max_concurrent
    /\ sem_value >= 0
    /\ scan_pc = "analyzing" => sem_value + Cardinality(Holding) = max_concurrent

\* C1 witness: the limit 2 is exhausted by two units at work while a third
\* waits at the gate.
C1_Witness ==
    /\ max_concurrent = 2
    /\ Cardinality(Holding) = 2
    /\ sem_waiters # <<>>

\* Where the analysis of a path raises, read off the file's properties.
ReachesStat(f) == ~files[f].skip /\ files[f].ext \in {"video", "subtitle", "image"}

SizeInWindow(f) ==
    /\ files[f].size >= min_file_size_mb
    /\ (max_file_size_gb = 0 \/ files[f].size <= max_file_size_gb)

ReachesVerify(f) == ReachesStat(f) /\ files[f].stat = "ok" /\ SizeInWindow(f)

RaisesInStat(f) == ReachesStat(f) /\ files[f].stat = "raise"

RaisesInSizeCheck(f) == ReachesStat(f) /\ files[f].stat = "nosize"

RaisesInVerify(f) == ReachesVerify(f) /\ files[f].content \in {"openraise", "sniffraise"}

AnalysisRaises(f) == RaisesInStat(f) \/ RaisesInSizeCheck(f) \/ RaisesInVerify(f)

PassesFilters(f) == ReachesVerify(f) /\ files[f].content = "media"

SniffFailOpen(f) ==
    ReachesVerify(f) /\ files[f].content = "sniffraise" /\ files[f].ext = "video"

StatedFilterSet ==
    {f \in FileIds : /\ ~files[f].skip
                     /\ (files[f].ext \in {"video", "subtitle", "image"}
                           \/ files[f].content = "media")
                     /\ SizeInWindow(f)}

\* The filter set read off the files: not skip-matched, a recognized media
\* extension, a stat that succeeds, size within the window, and content that
\* sniffs as media or, when the detector fails, a video extension.
AcceptedSet == {f \in FileIds : PassesFilters(f) \/ SniffFailOpen(f)}

NoDuplicates(seq) == \A i, j \in 1..Len(seq) : seq[i] = seq[j] => i = j

TheMovie == CHOOSE f \in FileIds : files[f] = MovieMkv

\* C12: the scan of the end-to-end tree with the default Settings and no
\* explicit concurrency limit does not fail (unless the directory walk itself
\* does) and, once complete, has yielded exactly one result, movie.mkv,
\* which is a video.
C12_EndToEnd ==
    (max_concurrent = 0 /\ min_file_size_mb = DefaultMinFileSizeMb) =>
        /\ scan_pc = "failed" => scan_error = "ScannerError"
        /\ scan_pc = "done" => yielded = <<TheMovie>> /\ files[TheMovie].ext = "video"

\* The same scan with an explicit limit and the default size limits
\* completes without a result: movie.mkv is below the default minimum size.
C12_ExplicitLimitDefaultMinimum ==
    (max_concurrent # 0 /\ min_file_size_mb = DefaultMinFileSizeMb /\ scan_pc = "done")
        => yielded = <<>>

\* The same scan with an explicit limit and a minimum size below 2 MB yields
\* exactly movie.mkv.
C12_ExplicitLimitSmallMinimum ==
    (max_concurrent # 0 /\ min_file_size_mb = MinFileSizeMb /\ scan_pc = "done")
        => yielded = <<TheMovie>>

\* A task at work: it holds a permit of the gate.
Working(pc) == pc \in {"stat", "verify"}

\* C26: once the consumer has stopped pulling results from scan_directory, no
\* analysis unit is scheduled and none begins its work; the units already at
\* work keep running to their end.
C26_NoWorkAfterStop ==
    [][scan_pc = "closed" =>
         \A t \in FileIds :
            /\ Working(task_pc'[t]) => Working(task_pc[t])
            /\ (task_pc[t] \in {"none", "pending", "waiting"}) =>
                   task_pc'[t] \in {"none", "pending", "waiting", "cancelled"}
            /\ Working(task_pc[t]) => task_pc'[t] # "cancelled"]_vars

\* A file whose header is read and whose MIME sniffing raises.
SniffFails(f) == ReachesVerify(f) /\ files[f].content = "sniffraise"

Analyzed(f) == task_pc[f] \in {"done", "consumed"}

RECURSIVE SumOfSizes(_)
SumOfSizes(S) ==
    IF S = {} THEN 0
    ELSE LET f == CHOOSE x \in S : TRUE
         IN  gs_files[f].size + SumOfSizes(S \ {f})

\* The files handed out so far whose stat succeeded.
Statable == {f \in 1..gs_pos : gs_files[f].stat = "ok"}

WithExtension(ext) == {f \in Statable : gs_files[f].ext = ext}

\* C28: get_directory_stats counts every file under the root once, into
\* exactly one of video, subtitle, image and other (by its extension), so
\* that total_files is the sum of the four and total_size the sum of the
\* sizes of the counted files; skip patterns, the size window and the content
\* play no part; a file whose stat fails is in no counter and the walk goes
\* on to the last file.
C28_DirectoryStats ==
    gs_pc \in {"walking", "done"} =>
        /\ gs_stats.total_files = Cardinality(Statable)
        /\ gs_stats.video_files = Cardinality(WithExtension("video"))
        /\ gs_stats.subtitle_files = Cardinality(WithExtension("subtitle"))
        /\ gs_stats.image_files = Cardinality(WithExtension("image"))
        /\ gs_stats.other_files = Cardinality(WithExtension("other"))
        /\ gs_stats.total_files = gs_stats.video_files + gs_stats.subtitle_files
                                     + gs_stats.image_files + gs_stats.other_files
        /\ gs_stats.total_size = SumOfSizes(Statable)
        /\ gs_pc = "done" => gs_pos = discovered

\* C28 witness: the walk is over; a file whose stat failed was passed over, and
\* a file matching a skip pattern, a file below the minimum size and a text
\* file are all counted.
C28_Witness ==
    /\ gs_pc = "done"
    /\ gs_root = "dir"
    /\ gs_files[1].stat = "raise"
    /\ gs_files[2].stat = "ok" /\ gs_files[2].skip
    /\ gs_files[3].stat = "ok" /\ gs_files[3].size < MinFileSizeMb
    /\ gs_stats.total_files = 2
    /\ gs_stats.video_files = 2

(***************************************************************************)
(* Claims about copy_file_atomic.                                          *)
(***************************************************************************)

\* C3: in every state of a copy, failed and aborted ones included, the
\* destination path is either as it was before the call or holds the complete
\* content the source had when the call started.
C3_DestinationIntact ==
    cp_pc # "idle" => fs[destination] \in {cp_dst0, cp_src0}

\* The same statement for calls whose source is not the staging path of the
\* destination (source # destination + ".tmp").
C3_DestinationIntactUnaliased ==
    (cp_pc # "idle" /\ cp_source # temp_destination) =>
        fs[destination] \in {cp_dst0, cp_src0}

\* The destination changes only in the rename step, to the content of the
\* staging file, which by then is fully written and, when verify_integrity is
\* set, equal to the source.
C3_OnlyRenameWritesDestination ==
    [][fs'[destination] # fs[destination] =>
         /\ cp_pc = "rename" /\ cp_pc' = "done"
         /\ fs'[destination] = fs[temp_destination]
         /\ cp_pos = Len(fs[temp_destination])
         /\ (cp_verify => fs[cp_source] = fs[temp_destination])]_vars

\* C22: when verify_integrity is true and the hash of the staging file differs
\* from the hash of the source, copy_file_atomic deletes the staging file,
\* raises FileIntegrityError to its caller, never renames, and leaves the
\* destination as it was before the call.
C22_IntegrityErrorRaised ==
    (cp_pc = "failed" /\ cp_cause = "FileIntegrityError") =>
        /\ cp_verify
        /\ fs[temp_destination] = Absent
        /\ fs[destination] = cp_dst0
        /\ cp_error = "FileIntegrityError"

\* C23: whenever copy_file_atomic ends with a failure during streaming,
\* metadata preservation, verification or rename, no staging file is left
\* and the error raised is a FileOperationError wrapping the cause.
C23_FailureCleansStaging ==
    (cp_pc = "failed" /\ cp_cause # "none") =>
        /\ fs[temp_destination] = Absent
        /\ cp_error = "FileOperationError"

\* A rename fails with a cross-device error only if the source lies on
\* another file system than the destination; of the paths of the model only
\* "s" lies outside the directory of the destination.
CrossDevice == mv_source = "s"

C24_FallbackStep ==
    /\ (mv_pc = "rename" /\ mv_pc' = "done") =>
          (fs'[mv_source] = Absent /\ fs'[mv_destination] = mv_src0)
    /\ (mv_pc = "fallback" /\ mv_pc' # mv_pc) =>
          /\ mv_pc' = "fallback_copy"
          /\ cp_pc' = "start"
          /\ cp_source' = mv_source
          /\ cp_destination' = mv_destination
          /\ cp_verify' = mv_verify
    /\ mv_pc = "fallback_copy" => fs'[mv_source] = mv_src0
    /\ (mv_pc = "fallback_copy" /\ cp_pc = "failed" /\ mv_pc' # mv_pc) =>
          (mv_pc' = "failed" /\ fs'[mv_source] = mv_src0)
    /\ (mv_pc = "fallback_copy" /\ mv_pc' = "remove") =>
          (cp_pc = "done" /\ fs[mv_destination] = mv_src0)
    /\ (mv_pc = "remove" /\ mv_pc' = "done") =>
          (fs'[mv_source] = Absent /\ fs'[mv_destination] = mv_src0)
    /\ fs'[mv_source] # fs[mv_source] => mv_pc \in {"rename", "remove"}

\* C24: when the rename of move_file_atomic fails with a cross-device error,
\* the move falls back to copy_file_atomic(source, destination) with the
\* caller's verify_integrity, deletes the source only after that copy has
\* succeeded, and returns as the fast path does, with the source gone and
\* its content at the destination; if the fallback copy fails, the move
\* fails and the source is not deleted.
C24_FallbackCopyThenDelete == [][CrossDevice => C24_FallbackStep]_vars

\* C24 witness: the rename failed, the verified fallback copy succeeded, the
\* source was then removed and the move returned.
C24_Witness ==
    /\ CrossDevice
    /\ mv_pc = "done"
    /\ mv_verify
    /\ cp_source = mv_source
    /\ cp_destination = mv_destination
    /\ cp_verify
    /\ cp_src0 = mv_src0
    /\ fs[mv_source] = Absent
    /\ fs[mv_destination] = mv_src0

\* C25: every move that succeeds returns with the source's content at the
\* destination, by the rename or by the fallback alike, and every failure of
\* a move, on the fast path or in the fallback, a failure to delete the
\* source after the copy included, reaches the caller as FileOperationError
\* or one of its subclasses.
C25_FailuresAreFileOperationErrors ==
    /\ (mv_pc = "done" /\ CrossDevice) => fs[mv_destination] = mv_src0
    /\ mv_pc = "failed" => mv_error \in FileOperationErrors

(***************************************************************************)
(* Claims about retry_async.                                               *)
(***************************************************************************)

AllRetryable == \A i \in 1..Len(rt_exceptions) :
                    isinstance(rt_exceptions[i], rt_strategy.retryable_exceptions)

Retried(i) == i < Len(rt_exceptions) \/ rt_pc # "raised"

\* C21: for each of the three strategies the error raised at attempt number a
\* is answered by a retry exactly when a < max_attempts and the error is an
\* instance of a whitelisted class, whatever its message; hence an operation
\* whose first error is of no whitelisted class is invoked exactly once, no
\* sleep occurs, and RetryError is raised with attempts = 0 and that error as
\* last_exception.
C21_RetryDecision ==
    /\ \A i \in 1..Len(rt_exceptions) :
          Retried(i) <=>
              /\ i - 1 < rt_strategy.max_attempts
              /\ \E class \in rt_strategy.retryable_exceptions :
                    class \in Bases(rt_exceptions[i].kind)
    /\ (/\ Len(rt_exceptions) >= 1
        /\ Bases(rt_exceptions[1].kind) \cap rt_strategy.retryable_exceptions = {})
        => /\ rt_pc = "raised"
           /\ rt_calls = 1
           /\ rt_sleeps = <<>>
           /\ rt_total_delay = 0
           /\ rt_raised = [attempts |-> 0, last_exception |-> rt_exceptions[1]]

\* C21 witness: with a budget of two retries and only PermissionError
\* whitelisted, an OSError ended the run at the first invocation.
C21_Witness ==
    /\ rt_pc = "raised"
    /\ rt_strategy.max_attempts = 2
    /\ rt_strategy.retryable_exceptions = {"PermissionError"}
    /\ rt_exceptions = <<[kind |-> "OSError", message |-> "corrupted", call |-> 1]>>
    /\ rt_calls = 1

\* What the caller of the wrapped function receives.
raised_to_caller == IF rt_pc = "raised" THEN "RetryError" ELSE "none"

LastOutcome == rt_outcomes[Len(rt_outcomes)]

\* C29: extract_media_info, called through its retry wrapper, raises
\* UnsupportedFileError to its caller when parse returns no tracks or raises
\* an arbitrary error, raises CorruptedFileError when the text of the error
\* contains 'corrupted' or 'invalid', and on success returns the parsed media
\* info after a single call of parse.
C29_ExtractErrors ==
    rt_func = "extract_media_info" =>
        /\ rt_pc = "returned" => (LastOutcome = Returned /\ rt_calls = 1)
        /\ (rt_pc = "raised" /\ LastOutcome.result = "no_tracks") =>
              raised_to_caller = "UnsupportedFileError"
        /\ (rt_pc = "raised" /\ LastOutcome.result = "raised") =>
              raised_to_caller = IF LastOutcome.message = "corrupted"
                                   THEN "CorruptedFileError"
                                   ELSE "UnsupportedFileError"

\* Every invocation so far failed with an error of the operating system.
AllTransient ==
    \A i \in 1..Len(rt_outcomes) :
        rt_outcomes[i].result = "raised" /\ "OSError" \in Bases(rt_outcomes[i].kind)

\* C30: when parse fails with a transient error of the operating system, the
\* extraction is attempted again, up to 2 retries with a backoff sleep before
\* each, and only when these are used up does the caller receive RetryError
\* with the attempt count and the last cause.
C30_TransientErrorsRetried ==
    (rt_func = "extract_media_info" /\ rt_pc = "raised" /\ AllTransient) =>
        /\ rt_calls = ExtractMaxAttempts + 1
        /\ Len(rt_sleeps) = ExtractMaxAttempts
        /\ rt_raised.attempts = ExtractMaxAttempts
        /\ rt_raised.last_exception = rt_exceptions[rt_calls]

(***************************************************************************)
(* Claims about SlidingWindowRateLimiter.                                  *)
(***************************************************************************)

\* Grants among the first n decisions whose time lies in the window (lo, hi].
GrantsIn(n, lo, hi) ==
    {j \in 1..n : sw_log[j].outcome = "granted" /\ sw_log[j].t > lo /\ sw_log[j].t <= hi}

\* The earliest of a non-empty set of decisions.
OldestTime(js) == CHOOSE t \in {sw_log[j].t : j \in js} :
                      \A j \in js : t <= sw_log[j].t

\* C5: a decision is a grant exactly when fewer than max_requests grants lie
\* in the trailing window (so max_requests acquires at one instant all
\* succeed, and an acquire made once the window has passed since the oldest
\* grant succeeds again); otherwise it is rejected with
\* retry_after = oldest_timestamp + W - now, which is strictly positive; and
\* only grants are recorded in the deque.
C5_SlidingWindowDecisions ==
    /\ \A i \in 1..Len(sw_log) :
         LET now == sw_log[i].t
             live == GrantsIn(i - 1, now - sw_window, now)
         IN  IF Cardinality(live) < sw_max_requests
               THEN sw_log[i].outcome = "granted"
               ELSE /\ sw_log[i].outcome = "rejected"
                    /\ sw_log[i].retry_after = OldestTime(live) + sw_window - now
                    /\ sw_log[i].retry_after > 0
    /\ sw_log # <<>> =>
         LET now == sw_log[Len(sw_log)].t
         IN  /\ Len(sw_requests) = Cardinality(GrantsIn(Len(sw_log), now - sw_window, now))
             /\ \A k \in 1..Len(sw_requests) :
                   \E j \in GrantsIn(Len(sw_log), now - sw_window, now) :
                       sw_log[j].t = sw_requests[k]

\* C5 witness: with max_requests = 2, two grants at one instant, a rejection
\* at that instant, and a grant once the window has passed.
C5_Witness ==
    /\ sw_max_requests = 2
    /\ Len(sw_log) >= 4
    /\ sw_log[1].outcome = "granted" /\ sw_log[2].outcome = "granted"
    /\ sw_log[3].outcome = "rejected"
    /\ sw_log[1].t = sw_log[3].t
    /\ sw_log[4].outcome = "granted"
    /\ sw_log[4].t = sw_log[1].t + sw_window

StartsFull == initial_tokens_of(tb_initial, tb_capacity) = tb_capacity * TokenUnit

\* Tokens granted by the first n entries of the log.
RECURSIVE TbGrantedSum(_)
TbGrantedSum(n) ==
    IF n = 0 THEN 0
    ELSE TbGrantedSum(n - 1)
         + (IF tb_log[n].outcome = "granted" THEN tb_log[n].requested ELSE 0)

NoResetUpTo(n) == \A j \in 1..n : tb_log[j].op = "acquire"

\* The time of the latest grant, reset or construction before entry i.
LastDrainBefore(i) ==
    LET js == {j \in 1..(i - 1) : tb_log[j].outcome # "rejected"}
    IN  IF js = {} THEN 0
        ELSE tb_log[CHOOSE j \in js : \A k \in js : k <= j].t

\* C6: for a bucket that starts full, (a) while no time has elapsed the
\* acquires are granted as long as the total stays within C and exactly
\* C - k tokens remain after a total of k was granted; (b) a request
\* exceeding the available tokens is rejected with
\* retry_after = (requested - available) / R and deducts nothing; (c) once
\* C / R seconds have passed without a grant the bucket holds exactly C,
\* and it never holds more.
C6_TokenBucketDecisions ==
    StartsFull =>
      /\ \A i \in 1..Len(tb_log) :
           LET e == tb_log[i]
           IN  /\ (e.t = 0 /\ NoResetUpTo(i)) =>
                     /\ e.left = (tb_capacity - TbGrantedSum(i)) * TokenUnit
                     /\ (e.outcome = "granted") <=>
                            (TbGrantedSum(i - 1) + e.requested <= tb_capacity)
               /\ (e.op = "acquire" /\ e.requested * TokenUnit > e.avail) =>
                     /\ e.outcome = "rejected"
                     /\ e.retry_needed = e.requested * TokenUnit - e.avail
                     /\ e.retry_needed > 0
                     /\ e.left = e.avail
               /\ (e.op = "acquire" /\ e.requested * TokenUnit <= e.avail) =>
                     /\ e.outcome = "granted"
                     /\ e.left = e.avail - e.requested * TokenUnit
               /\ (e.op = "acquire"
                     /\ (e.t - LastDrainBefore(i)) * tb_refill_rate
                            >= tb_capacity * TokenUnit) =>
                     e.avail = tb_capacity * TokenUnit
               /\ e.avail <= tb_capacity * TokenUnit
               /\ e.left <= tb_capacity * TokenUnit
      /\ tb_tokens <= tb_capacity * TokenUnit
      /\ tb_log # <<>> => tb_tokens = tb_log[Len(tb_log)].left

\* C6 witness: a full bucket of two tokens is emptied by two grants at time
\* zero, rejects the next request at time zero, and is found full again by
\* an acquire made C / R seconds later.
C6_Witness ==
    /\ StartsFull
    /\ tb_capacity = 2
    /\ Len(tb_log) >= 4
    /\ \A i \in 1..3 : tb_log[i].t = 0 /\ tb_log[i].requested = 1
    /\ tb_log[1].outcome = "granted" /\ tb_log[2].outcome = "granted"
    /\ tb_log[3].outcome = "rejected" /\ tb_log[3].retry_needed = TokenUnit
    /\ tb_log[4].op = "acquire"
    /\ tb_log[4].t * tb_refill_rate >= tb_capacity * TokenUnit
    /\ tb_log[4].avail = tb_capacity * TokenUnit

\* C8: 0 <= tokens <= capacity holds from construction, with or without
\* initial_tokens, and after every acquire, acquire_wait, refill and reset.
C8_TokensWithinCapacity ==
    /\ 0 <= tb_tokens
    /\ tb_tokens <= tb_capacity * TokenUnit

\* C8, restricted to buckets constructed with at most capacity tokens.
C8_TokensWithinCapacityFromValidStart ==
    (tb_initial = <<>> \/ tb_initial[1] <= tb_capacity) => C8_TokensWithinCapacity

(***************************************************************************)
(* Claims about AdaptiveRateLimiter.                                       *)
(***************************************************************************)

\* C7: exactly every 10th consecutive report_success multiplies current_rate
\* by increase_factor, capped at max_rate, and restarts the streak; every
\* other report_success leaves the rate alone; report_rate_limited multiplies
\* the rate by decrease_factor at once, floored at min_rate, and zeroes the
\* streak, so earlier successes do not count toward the next increase.
C7_AdaptiveAdjustment ==
    /\ ad_consecutive_successes = ad_run % SuccessThreshold
    /\ ad_last_report = "success" =>
         IF ad_run % SuccessThreshold = 0
           THEN ad_current_rate = RMin(ad_max_rate, RMul(ad_prev_rate, ad_increase_factor))
           ELSE ad_current_rate = ad_prev_rate
    /\ ad_last_report = "rate_limited" =>
         /\ ad_current_rate = RMax(ad_min_rate, RMul(ad_prev_rate, ad_decrease_factor))
         /\ ad_consecutive_successes = 0
         /\ ad_run = 0

\* C7 witness: after a rate-limited report, the 20th consecutive success
\* has just raised the rate for the second time.
C7_Witness ==
    /\ ad_limited >= 1
    /\ ad_run = 2 * SuccessThreshold
    /\ ad_last_report = "success"
    /\ ad_current_rate = RMul(ad_prev_rate, ad_increase_factor)
    /\ ad_current_rate # ad_prev_rate

\* C10: current_rate stays within [min_rate, max_rate] from construction
\* with its initial_rate and after any sequence of acquire, report_success
\* and report_rate_limited.
C10_RateWithinBounds ==
    /\ RLe(ad_min_rate, ad_current_rate)
    /\ RLe(ad_current_rate, ad_max_rate)

\* C10, restricted to limiters constructed with min_rate <= initial_rate <=
\* max_rate.
C10_RateWithinBoundsFromValidStart ==
    (RLe(ad_min_rate, ad_initial_rate) /\ RLe(ad_initial_rate, ad_max_rate))
       => C10_RateWithinBounds

(***************************************************************************)
(* C13: move_file_atomic(src, dst, create_backup=True) where dst already   *)
(* exists ends with dst + ".backup" holding the original content of dst,   *)
(* dst holding the original content of src, and src no longer existing;    *)
(* the backup is taken before dst is overwritten.                          *)
(***************************************************************************)
BackupCase == mv_create_backup /\ mv_dst0 # Absent /\ mv_src0 # Absent

MoveEndState ==
    /\ fs[backup_path] = mv_dst0
    /\ fs[mv_destination] = mv_src0
    /\ fs[mv_source] = Absent

BackupBeforeOverwrite ==
    fs[mv_destination] # mv_dst0 => fs[backup_path] = mv_dst0

C13_BackupThenMove ==
    BackupCase =>
        /\ mv_pc = "done" => MoveEndState
        /\ BackupBeforeOverwrite

\* C13 for a source that is none of dst, dst + ".tmp", dst + ".backup",
\* dst + ".backup.tmp".
C13_BackupThenMoveUnaliased ==
    (BackupCase /\ mv_source = "s") =>
        /\ mv_pc = "done" => MoveEndState
        /\ BackupBeforeOverwrite

(***************************************************************************)
(* C14: a root that is missing or is not a directory makes the scan raise  *)
(* InvalidDirectoryError before anything is discovered, analysed or        *)
(* yielded; the scan fails only from validation or discovery, so a scan    *)
(* that has scheduled analysis or yielded a result never raises to its     *)
(* consumer.                                                               *)
(***************************************************************************)
NothingAnalysed ==
    /\ \A t \in FileIds : task_pc[t] = "none"
    /\ completed = <<>>
    /\ yielded = <<>>

C14_FailureOnlyBeforeAnalysis ==
    /\ root_kind # "dir" =>
          /\ scan_pc \in {"idle", "failed"}
          /\ scan_pc = "failed" => scan_error = "InvalidDirectoryError"
          /\ file_paths = <<>>
          /\ NothingAnalysed
    /\ scan_pc = "failed" =>
          /\ scan_error \in {"InvalidDirectoryError", "AttributeError", "ScannerError"}
          /\ scan_error = "ScannerError" => root_kind = "dir"
          /\ scan_error # "ScannerError" => file_paths = <<>>
          /\ NothingAnalysed
    /\ (scan_pc \in {"analyzing", "done"} \/ yielded # <<>>) => scan_error = "none"

C14_Witness ==
    /\ root_kind = "file"
    /\ scan_pc = "failed"
    /\ scan_error = "InvalidDirectoryError"

(***************************************************************************)
(* C15: discovery is complete before the first analysis unit is scheduled: *)
(* while paths are still being collected no task exists, and once a task   *)
(* exists every path has been collected.                                   *)
(***************************************************************************)
C15_DiscoveryBeforeAnalysis ==
    /\ scan_pc \in {"idle", "discovering"} => \A t \in FileIds : task_pc[t] = "none"
    /\ (\E t \in FileIds : task_pc[t] # "none") =>
          /\ Len(file_paths) = NFiles
          /\ scan_pc \in {"analyzing", "done"}
    /\ Len(file_paths) < NFiles => sem_value \in {0, max_concurrent} /\ sem_waiters = <<>>

C15_Witness ==
    /\ scan_pc = "analyzing"
    /\ Len(file_paths) = NFiles
    /\ \E t \in FileIds : task_pc[t] = "stat"
    /\ \E t \in FileIds : task_pc[t] = "pending"

(***************************************************************************)
(* C16: results are delivered in the order in which their analyses         *)
(* finished, whatever the order of discovery: the yielded files are, in    *)
(* order, the first accepted files of the finishing order.                 *)
(***************************************************************************)
IsPrefix(a, b) == Len(a) <= Len(b) /\ \A i \in 1..Len(a) : a[i] = b[i]

AcceptedInFinishOrder ==
    SelectSeq(finish_order, LAMBDA t : task_result[t] = "media")

C16_CompletionOrder == IsPrefix(yielded, AcceptedInFinishOrder)

C16_Witness ==
    /\ Len(yielded) = 2
    /\ yielded[1] > yielded[2]
    /\ Len(AcceptedInFinishOrder) = 2

(***************************************************************************)
(* C17: no limiter operation blocks for ever.  For the token bucket: every *)
(* call of acquire_wait, for any number of tokens, eventually returns,     *)
(* whatever the other callers do, as long as time advances.                *)
(***************************************************************************)
C17_AcquireWaitReturns ==
    \A c \in TbCallers : (tb_pc[c] = "sleeping") ~> (tb_pc[c] = "returned")

\* C17 for requests of at most capacity tokens on a bucket that starts with
\* at most capacity tokens.
C17_AcquireWaitReturnsWithinCapacity ==
    \A c \in TbCallers :
        (tb_pc[c] = "sleeping" /\ tb_want[c] <= tb_capacity) ~> (tb_pc[c] = "returned")

\* A request for more than capacity tokens is never granted by a bucket that
\* starts with at most capacity tokens.
C17_OverCapacityNeverReturns ==
    \A c \in TbCallers :
        (StartsFull \/ tb_initial[1] <= tb_capacity) =>
            ~(tb_pc[c] = "returned" /\ tb_want[c] > tb_capacity)

(***************************************************************************)
(* C18: a limiter's lock covers only the decision: a caller that is        *)
(* waiting out a delay does not hold it, so the decisions and the reports  *)
(* of other callers are not held up for the length of that wait.  For the  *)
(* adaptive limiter: no caller sleeps while it owns the lock.              *)
(***************************************************************************)
C18_NoSleepUnderLock ==
    \A c \in AdCallers : ad_pc[c] = "sleeping" => ad_lock # c

\* The part of C18 that the lock does give: one caller at a time owns it.
C18_OneOwner ==
    /\ ad_lock \in {0} \cup AdCallers
    /\ \A c \in AdCallers : ad_pc[c] = "sleeping" => ad_lock = c

(***************************************************************************)
(* C19: with an adaptive limiter, call() reports the outcome of every      *)
(* invocation of the wrapped operation: one report_success for each        *)
(* invocation that returns and one report_rate_limited for each that ends  *)
(* with RateLimitExceeded, whatever auto_retry and max_retries are, the    *)
(* last attempt included.                                                  *)
(***************************************************************************)
Count(kind) == Cardinality({i \in DOMAIN rc_log : rc_log[i].ev = kind})

RcOver == rc_pc \in {"returned", "raised"}

C19_EveryOutcomeReported ==
    (rc_limiter = "adaptive" /\ RcOver) =>
        /\ Count("report_success") = Count("returned")
        /\ Count("report_rate_limited") = Count("rate_limited")

\* What call() does report: every normal return, and every rate-limit error
\* that is followed by a retry.
C19_ReportedOutcomes ==
    (rc_limiter = "adaptive" /\ RcOver) =>
        /\ Count("report_success") = Count("returned")
        /\ Count("report_rate_limited") = rc_retries
        /\ Count("rate_limited") =
              rc_retries + (IF rc_error = "RateLimitExceeded" /\ rc_log # <<>> THEN 1 ELSE 0)

(***************************************************************************)
(* C20: with auto_retry call() makes at most max_retries + 1 rounds of     *)
(* acquire-then-invoke, sleeps 2^retries seconds between two rounds        *)
(* (retries counting the rounds made so far), and raises RateLimitExceeded *)
(* once the budget is used up; without auto_retry the first rejection is   *)
(* raised and nothing is retried; the wrapped operation is never invoked   *)
(* after a rejected acquire.                                               *)
(***************************************************************************)
Attempts == Count("acquired") + Count("rejected")

Invocations == Count("returned") + Count("rate_limited") + Count("failed")

Rejections == Count("rejected") + Count("rate_limited")

Sleeps == SelectSeq(rc_log, LAMBDA e : e.ev = "sleep")

C20_RetryBudget ==
    /\ Attempts <= Max(0, rc_max_retries + 1)
    /\ Invocations <= Count("acquired")
    /\ Len(Sleeps) = rc_retries
    /\ \A k \in 1..Len(Sleeps) : Sleeps[k].n = 2 ^ k
    /\ Attempts <= Len(Sleeps) + 1
    /\ Len(Sleeps) <= Attempts
    /\ \A i \in 1..(Len(rc_log) - 1) :
          rc_log[i].ev = "rejected" =>
              rc_log[i + 1].ev \notin {"returned", "rate_limited", "failed"}
    /\ (RcOver /\ Rejections > Len(Sleeps)) =>
          rc_pc = "raised" /\ rc_error = "RateLimitExceeded"
    /\ (rc_auto_retry /\ rc_pc = "raised" /\ rc_error = "RateLimitExceeded") =>
          Attempts = rc_max_retries + 1
    /\ ~rc_auto_retry =>
          /\ Attempts <= 1
          /\ Sleeps = <<>>
          /\ (Rejections > 0 /\ rc_pc # "handler") =>
                rc_pc = "raised" /\ rc_error = "RateLimitExceeded"

C20_Witness ==
    /\ rc_auto_retry
    /\ rc_max_retries = MaxRetriesBound
    /\ rc_pc = "raised"
    /\ rc_error = "RateLimitExceeded"
    /\ Attempts = MaxRetriesBound + 1
    /\ Len(Sleeps) = MaxRetriesBound
    /\ Count("rejected") = 0

(***************************************************************************)
(* C31: parse_media_file writes only the statuses SCANNING, COMPLETED and  *)
(* FAILED; while it runs the file is SCANNING; it returns only with status *)
(* COMPLETED and no error_message, it raises only MediaParserError and     *)
(* only with status FAILED and a non-empty error_message, and in both      *)
(* cases processed_at is set.                                              *)
(***************************************************************************)
NonEmpty(message) == message # None /\ \E i \in 1..Len(message) : message[i] # ""

C31_StatusProtocol ==
    /\ pm_pc \in {"extract", "fill", "complete", "handler"} =>
          /\ pm_media_file.processing_status = "scanning"
          /\ pm_media_file.error_message = None
    /\ pm_pc = "returned" =>
          /\ pm_media_file.processing_status = "completed"
          /\ pm_media_file.error_message = None
          /\ pm_media_file.processed_at # "None"
          /\ pm_raised = "none"
    /\ pm_raised # "none" =>
          /\ pm_pc = "raised"
          /\ pm_raised = "MediaParserError"
    /\ pm_pc = "raised" =>
          /\ pm_raised = "MediaParserError"
          /\ pm_media_file.processing_status = "failed"
          /\ NonEmpty(pm_media_file.error_message)
          /\ pm_media_file.processed_at # "None"

C31_Witness ==
    /\ pm_pc = "raised"
    /\ pm_raised = "MediaParserError"
    /\ pm_exception.kind = "RetryError"
    /\ pm_media_file.processing_status = "failed"
    /\ pm_media_file.processed_at = "now"

(***************************************************************************)
(* C32: across repeated calls of the same copy_file_atomic the source file *)
(* keeps its content, and a call that succeeds after an earlier call,      *)
(* failed or successful, leaves the destination with the content of the    *)
(* source, as a single copy does, and no staging file.                     *)
(***************************************************************************)
FailedMidStream(run) ==
    /\ run.error # "none"
    /\ run.pos >= 1
    /\ run.pos < Len(cp_src0)

RerunOutcome ==
    /\ fs[cp_source] = cp_src0
    /\ (cp_pc = "done" /\ cp_runs # <<>>) =>
          /\ fs[destination] = cp_src0
          /\ fs[temp_destination] = Absent

C32_RerunIdempotent == RerunOutcome

\* The same for every call whose source is not its own staging path.
C32_RerunIdempotentUnaliased == cp_source # temp_destination => RerunOutcome

C32_RerunAfterMidStreamFailure ==
    /\ cp_source # temp_destination
    /\ Len(cp_runs) = 2
    /\ FailedMidStream(cp_runs[1])
    /\ cp_runs[2].error = "none"
    /\ cp_pc = "done"
    /\ fs[destination] = cp_src0

(***************************************************************************)
(* C33: get_delay(attempt) returns min(max_delay, base_delay *             *)
(* exponential_base^attempt) when jitter is off, and with jitter on a      *)
(* value within 25% of it and never negative, for every attempt >= 0.      *)
(***************************************************************************)
\* min(max_delay, base_delay * 2^attempt) as a number.
NominalDelay ==
    IF gd_strategy.base_delay = 0 THEN 0
    ELSE Min(gd_strategy.max_delay,
             gd_strategy.base_delay * (2 ^ Min(gd_attempt, SaturatingExponent)))

DelayAsStated ==
    /\ gd_raised = "none"
    /\ gd_pc = "returned" =>
          /\ gd_delay >= 0
          /\ ~gd_strategy.jitter => gd_delay = NominalDelay
          /\ gd_strategy.jitter =>
                /\ 4 * gd_delay >= 3 * NominalDelay
                /\ 4 * gd_delay <= 5 * NominalDelay

C33_DelayFormula == DelayAsStated

\* The same for the attempts whose power is a finite float.
C33_DelayFormulaFinitePower == gd_attempt < FloatMaxExp => DelayAsStated

C33_JitteredDelayReturned ==
    /\ gd_pc = "returned"
    /\ gd_strategy.jitter
    /\ gd_attempt = 1
    /\ gd_delay = 10

(***************************************************************************)
(* C34: every acquire of the adaptive limiter ends in a grant; a grant     *)
(* stamps last_request, and it comes at least 1/current_rate after the     *)
(* grant before it, current_rate being the rate in force at the grant; a   *)
(* caller never has to sleep before the first grant has been made.         *)
(***************************************************************************)
Granted == ad_last_request' # ad_last_request

GrantStep ==
    /\ Granted =>
          /\ ad_last_request' = ad_now
          /\ ad_current_rate' = ad_current_rate
          /\ (ad_now - ad_last_request) * ad_current_rate[1] >= ad_current_rate[2]
    /\ \A c \in DOMAIN ad_pc :
          /\ (ad_pc[c] = "idle" /\ ad_pc'[c] = "sleeping") => ad_last_request # 0
          /\ (ad_pc[c] = "sleeping" /\ ad_pc'[c] # "sleeping") => Granted
          /\ (ad_pc[c] = "sleeping" /\ ad_pc'[c] = "sleeping") =>
                ad_current_rate' = ad_current_rate

C34_GrantSpacing == [][GrantStep]_vars

C34_Witness ==
    \E c \in DOMAIN ad_pc :
       /\ ad_pc[c] = "sleeping"
       /\ ad_lock = c
       /\ ad_last_request > AdEpoch
       /\ ad_current_rate # ad_initial_rate
       /\ ~remaining_delay_positive(ad_wake[c][2], ad_wake[c][1])

(***************************************************************************)
(* C35: a unit holds one permit of the gate while it is at work and gives  *)
(* it back when it exits, with or without a result, so the free permits    *)
(* and the units at work always add up to max_concurrent.  As stated, all  *)
(* permits are free and no unit waits at the gate once the last result has *)
(* been delivered; amended, once the scan is Done.                         *)
(***************************************************************************)
GateIdle ==
    /\ sem_value = max_concurrent
    /\ sem_waiters = <<>>
    /\ \A t \in FileIds : task_pc[t] \notin {"pending", "waiting", "stat", "verify"}

LastResultDelivered == yielded # <<>> /\ SeqToSet(yielded) = AcceptedSet

RECURSIVE SumOfDelays(_)
SumOfDelays(delays) ==
    IF delays = <<>> THEN 0 ELSE Head(delays) + SumOfDelays(Tail(delays))

Failed(i) == invoke(rt_func, rt_file, rt_outcomes[i]).result = "raised"

C36_RetryLoopAccounting ==
    /\ Len(rt_outcomes) = rt_calls
    /\ \A i \in 1..(rt_calls - 1) : Failed(i)
    /\ rt_pc = "returned" <=> (rt_calls >= 1 /\ ~Failed(rt_calls))
    /\ rt_attempt = Len(rt_sleeps)
    /\ rt_calls = Len(rt_sleeps) + (IF rt_pc = "call" THEN 0 ELSE 1)
    /\ \A k \in 1..Len(rt_sleeps) : rt_sleeps[k] \in delays_for(rt_strategy, k - 1)
    /\ rt_pc = "sleep" => rt_delay \in delays_for(rt_strategy, rt_attempt)
    /\ rt_total_delay = SumOfDelays(rt_sleeps) + (IF rt_pc = "sleep" THEN rt_delay ELSE 0)
    /\ Len(rt_exceptions) = Cardinality({i \in 1..rt_calls : Failed(i)})
    /\ \A i \in 1..Len(rt_exceptions) :
          /\ rt_exceptions[i].call = i
          /\ rt_exceptions[i].kind = invoke(rt_func, rt_file, rt_outcomes[i]).kind
          /\ rt_exceptions[i].message = invoke(rt_func, rt_file, rt_outcomes[i]).message

C36_Witness ==
    /\ rt_pc = "returned"
    /\ rt_func = "operation"
    /\ rt_strategy.kind = "exponential"
    /\ rt_strategy.jitter
    /\ rt_calls = 3
    /\ rt_sleeps = <<5, 8>>
    /\ rt_total_delay = 13
    /\ Len(rt_exceptions) = 2

(***************************************************************************)
(* C37: in every state of a move_file_atomic call, failures of the rename, *)
(* of the fallback copy, of its integrity check and of the deletion        *)
(* included, the original content of the source is at the source path or   *)
(* at the destination path.                                                *)
(***************************************************************************)
ContentKept ==
    mv_src0 # Absent => (fs[mv_source] = mv_src0 \/ fs[mv_destination] = mv_src0)

C37_NoDataLoss == mv_pc # "idle" => ContentKept

\* The same for a source that is none of the paths derived from the
\* destination.
C37_NoDataLossUnaliased == (mv_pc # "idle" /\ mv_source = "s") => ContentKept

C37_FailedFallbackKeepsSource ==
    /\ mv_source = "s"
    /\ mv_pc = "failed"
    /\ mv_error = "OSError"
    /\ cp_cause = "FileIntegrityError" \/ cp_pos >= 1
    /\ fs[mv_source] = mv_src0

(***************************************************************************)
(* C38: while two copy_file_atomic calls with different sources write to   *)
(* one destination, the file at the destination path is at every moment    *)
(* what it was before or the complete content of one of the two sources.   *)
(***************************************************************************)
VisibleDestination == IF cc_names["d"] = 0 THEN <<>> ELSE cc_data[cc_names["d"]]

C38_DestinationCompleteOrOld ==
    cc_names # <<>> =>
        (cc_names["d"] # 0 =>
            VisibleDestination \in {source_content(c) : c \in Copiers} \cup {OldDestination})

(***************************************************************************)
(* C39: for a token bucket used through acquire and acquire_wait by        *)
(* concurrent callers, the tokens granted within any interval of length T  *)
(* are at most capacity + refill_rate * T, no grant leaves a negative      *)
(* token count, and a stretch of time is credited to the bucket only once. *)
(***************************************************************************)
\* Tokens, in units, granted by the log entries with a time in [lo, hi].
RECURSIVE TbGrantedWithin(_, _, _)
TbGrantedWithin(n, lo, hi) ==
    IF n = 0 THEN 0
    ELSE TbGrantedWithin(n - 1, lo, hi)
         + (IF /\ tb_log[n].outcome = "granted"
               /\ tb_log[n].op = "acquire"
               /\ tb_log[n].t >= lo
               /\ tb_log[n].t <= hi
              THEN tb_log[n].requested * TokenUnit ELSE 0)

GrantBound ==
    /\ \A lo \in 0..MaxTbTime : \A hi \in lo..MaxTbTime :
          TbGrantedWithin(Len(tb_log), lo, hi)
              <= tb_capacity * TokenUnit + tb_refill_rate * (hi - lo)
    /\ \A i \in 1..Len(tb_log) :
          /\ tb_log[i].left >= 0
          /\ tb_log[i].avail <=
                (IF i = 1 THEN initial_tokens_of(tb_initial, tb_capacity)
                          ELSE tb_log[i - 1].left)
                + tb_refill_rate * (tb_log[i].t - (IF i = 1 THEN 0 ELSE tb_log[i - 1].t))
    /\ tb_last_refill <= tb_now

C39_GrantBound == NoResetUpTo(Len(tb_log)) => GrantBound

\* The same for buckets constructed with at most capacity tokens.
C39_GrantBoundFromValidStart ==
    (NoResetUpTo(Len(tb_log)) /\ (tb_initial = <<>> \/ tb_initial[1] <= tb_capacity))
        => GrantBound

C39_ConcurrentGrantsWithinBound ==
    /\ tb_initial = <<>>
    /\ NoResetUpTo(Len(tb_log))
    /\ Len(tb_log) >= 3
    /\ \E c \in DOMAIN tb_pc : tb_pc[c] = "sleeping"
    /\ TbGrantedWithin(Len(tb_log), 0, tb_now) = tb_capacity * TokenUnit + tb_refill_rate * tb_now
    /\ tb_now >= 2

(***************************************************************************)
(* C40: once discovery is over and the analysis units exist, a scan with a *)
(* limit of at least 1 whose analyses terminate reaches Done, and then     *)
(* every discovered path has been analysed once, every unit has been       *)
(* consumed, and the results are exactly the accepted files, each once.    *)
(***************************************************************************)
ScanCompleted ==
    /\ scan_pc = "done"
    /\ scan_error = "none"
    /\ NoDuplicates(file_paths) /\ SeqToSet(file_paths) = FileIds
    /\ NoDuplicates(finish_order) /\ SeqToSet(finish_order) = FileIds
    /\ \A t \in FileIds : task_pc[t] = "consumed"
    /\ NoDuplicates(yielded) /\ SeqToSet(yielded) = AcceptedSet

C40_ScanTerminates == (scan_pc = "analyzing") ~> ScanCompleted

C40_Witness ==
    /\ ScanCompleted
    /\ max_concurrent = 1
    /\ Len(yielded) = 2
    /\ \E t \in FileIds : files[t] = StatFailsMkv

====
